---- MODULE Spec2Model ----
(***************************************************************************)
(* Model of the claw_dashboard application: the connection client          *)
(* (src/services/GatewayClient.ts), the session hierarchy store            *)
(* (src/contexts/SessionContext.tsx), the main-process IPC handlers        *)
(* (dist/preload.js), Mission Control (src/pages/MissionControl.tsx), the  *)
(* push-socket client (src/services/OpenClawWebSocket.ts) and the smoke    *)
(* test script, all under src/apps/claw_dashboard or src/unnamed.          *)
(*                                                                         *)
(* Spec is the connection state machine, BackoffSpec the reconnect delay,  *)
(* EmitterSpec the event emitter, SessionSpec the session hierarchy and    *)
(* LoadSpec its start from stored text, IpcSpec the IPC handlers,          *)
(* ListingSpec GatewayClient.listSessions, SmokeSpec the smoke test,       *)
(* MissionSpec the spawn form of Mission Control, WsSpec the inbound       *)
(* frames of the push socket and WsLifecycleSpec its connection life       *)
(* cycle.                                                                  *)
(*                                                                         *)
(* The client is a single-threaded object driven by the event loop: user   *)
(* calls (connect, reconnect, disconnect), timer callbacks (the reconnect  *)
(* setTimeout, the heartbeat setInterval) and the resolution of in-flight  *)
(* `gateway:status` IPC probes.  Every action below is one run-to-         *)
(* completion step of that loop: the synchronous code from the call or     *)
(* callback up to the next await or return.                                *)
(***************************************************************************)
EXTENDS Naturals, Integers, Sequences, FiniteSets, TLC

\* ------------------------------------------------------------------ bounds
MaxConnectProbes == 2    \* connect() calls awaiting their status probe
MaxHeartbeatProbes == 1  \* heartbeat callbacks awaiting their status probe
MaxTimeouts == 2         \* setTimeout callbacks scheduled and not yet run
MaxTime == 1             \* distinct readings of the wall clock (new Date())
MaxSockets == 3          \* WebSocket objects that are not closed, at one time
MaxWsTimers == 1         \* push socket: reconnect timeouts scheduled and not yet run

\* ------------------------------------------------------- program constants
maxReconnectAttempts == 5

NULL == "null"
NoDate == 0

ConnectionState ==
  {"connecting", "connected", "reconnecting", "disconnecting", "disconnected", "error"}

\* What window.ipc.invoke('gateway:status') can do: resolve with running =
\* true, with running = false, with an error field, or reject (with or
\* without a message).
IpcReplies == {"running", "stopped", "error", "reject", "rejectEmpty"}

\* gatewayStatus(): a reply with an error field, or without running, gives
\* running = false; a rejection propagates to the caller.
gatewayStatus(reply) ==
  CASE reply = "running"     -> [rejected |-> FALSE, running |-> TRUE,  message |-> NULL]
    [] reply = "stopped"     -> [rejected |-> FALSE, running |-> FALSE, message |-> NULL]
    [] reply = "error"       -> [rejected |-> FALSE, running |-> FALSE, message |-> NULL]
    [] reply = "reject"      -> [rejected |-> TRUE,  running |-> FALSE, message |-> "ipc failure"]
    [] reply = "rejectEmpty" -> [rejected |-> TRUE,  running |-> FALSE, message |-> ""]

VARIABLES
  state,               \* this.state
  lastError,           \* this.lastError (NULL or a message)
  lastDisconnectTime,  \* this.lastDisconnectTime (NoDate or a clock reading)
  reconnectAttempts,   \* this.reconnectAttempts
  reconnectTimer,      \* this.reconnectTimer: NULL, or a handle whose timeout is "pending" or has "fired"
  heartbeatTimer,      \* this.heartbeatTimer: NULL or "live"
  isManualDisconnect,  \* this.isManualDisconnect
  pendingTimeouts,     \* event loop: reconnect setTimeout callbacks scheduled, not cleared, not yet run
  liveIntervals,       \* event loop: heartbeat setInterval callbacks installed and not cleared
  ipcAvailable,        \* whether window.ipc exists (fixed by the preload script)
  connectProbes,       \* in-flight connect() continuations, a bag indexed by ProbeTags
  heartbeatProbes,     \* in-flight heartbeat callbacks awaiting gatewayStatus()
  events,              \* the events emitted by the last step, in order
  last,                \* the last step taken: operation, state before it, tag of the probe resolved
  chain,               \* history: failed probes since a connect() failed with reconnectAttempts = 0
  quiet,               \* history: disconnect() hit `reconnecting` and no explicit connect()/reconnect() since
  revived,             \* history: reconnect() was called at rest; timer-invoked connect() calls since
  recovering,          \* history: a heartbeat probe failed in `connected`; only running replies, no disconnect() since
  backoff,             \* the last getBackoffDelay() call: its argument, its Math.random() draw, its result
  listeners,           \* this.eventListeners.get(event): the handler array of one event
  called,              \* the last call on the emitter: on, once, off, emit, removeAllListeners
  delivery,            \* the emit(event) just run: the array it started with, the handlers it invoked
  mapping,             \* SessionProvider: the `mapping` state
  storage,             \* localStorage['openclaw_session_hierarchy']
  effectPending,       \* SessionProvider: the persistence effect is queued for the committed mapping
  spawnCalls,          \* history: the number of addSpawn() calls so far
  defect,              \* SessionProvider: how the `mapping` value departs from a SessionMapping
  sessionOp,           \* the last call on the provider: mount, addSpawn, clearMapping, lookup
  effectStored,        \* whether setItem() succeeded when the persistence effect last ran
  crashed,             \* a provider call threw (uncaught TypeError)
  ipc,                 \* main process: the IPC handler invoked, its execFile() call, what it returned
  listing,             \* renderer: the sessions:list reply given to listSessions(), and its outcome
  smoke,               \* smoke test: the check it is at, the result of each command it ran, its exit code
  mission,             \* MissionControl: its sessions and spawn form state, the spawn in flight, the last spawn
  ws                   \* OpenClawWebSocket: its fields, the sockets it created, pending reconnect timeouts, the last callback run

vars ==
  <<state, lastError, lastDisconnectTime, reconnectAttempts, reconnectTimer,
    heartbeatTimer, isManualDisconnect, pendingTimeouts, liveIntervals,
    ipcAvailable, connectProbes, heartbeatProbes, events, last, chain, quiet,
    revived, recovering, backoff, listeners, called, delivery, mapping,
    storage, effectPending, spawnCalls, defect, sessionOp, effectStored,
    crashed,
    ipc,
    listing,
    smoke,
    mission,
    ws>>

\* The variables of each component; a step of one component leaves the
\* others' untouched.
gatewayVars ==
  <<state, lastError, lastDisconnectTime, reconnectAttempts, reconnectTimer,
    heartbeatTimer, isManualDisconnect, pendingTimeouts, liveIntervals,
    ipcAvailable, connectProbes, heartbeatProbes, events, last, chain, quiet,
    revived, recovering>>

backoffVars == <<backoff>>

emitterVars == <<listeners, called, delivery>>

sessionVars ==
  <<mapping, storage, effectPending, spawnCalls, defect, sessionOp,
    effectStored, crashed>>

ipcVars == <<ipc>>

listingVars == <<listing>>

smokeVars == <<smoke>>

missionVars == <<mission>>

wsVars == <<ws>>

\* What a step of one component leaves untouched.
exceptGateway == <<backoffVars, emitterVars, sessionVars, ipcVars, listingVars, smokeVars, missionVars, wsVars>>

exceptBackoff == <<gatewayVars, emitterVars, sessionVars, ipcVars, listingVars, smokeVars, missionVars, wsVars>>

exceptEmitter == <<gatewayVars, backoffVars, sessionVars, ipcVars, listingVars, smokeVars, missionVars, wsVars>>

exceptSession == <<gatewayVars, backoffVars, emitterVars, ipcVars, listingVars, smokeVars, missionVars, wsVars>>

exceptIpc == <<gatewayVars, backoffVars, emitterVars, sessionVars, listingVars, smokeVars, missionVars, wsVars>>

exceptListing == <<gatewayVars, backoffVars, emitterVars, sessionVars, ipcVars, smokeVars, missionVars, wsVars>>

exceptSmoke == <<gatewayVars, backoffVars, emitterVars, sessionVars, ipcVars, listingVars, missionVars, wsVars>>

\* Mission Control calls into the hierarchy provider: its steps say themselves
\* what they do to sessionVars.
exceptMission == <<gatewayVars, backoffVars, emitterVars, ipcVars, listingVars, smokeVars, wsVars>>

exceptWs == <<gatewayVars, backoffVars, emitterVars, sessionVars, ipcVars, listingVars, smokeVars, missionVars>>

\* A connect() continuation remembers nothing of its own; the tags are
\* history: disc = disconnect() took effect since this connect() started;
\* counted = this connect() was invoked by the reconnect timer during the
\* current chain.
ProbeTags == [disc : BOOLEAN, counted : BOOLEAN]

NoProbes == [t \in ProbeTags |-> 0]

ProbeCount(bag) ==
  bag[[disc |-> FALSE, counted |-> FALSE]] + bag[[disc |-> FALSE, counted |-> TRUE]]
  + bag[[disc |-> TRUE, counted |-> FALSE]] + bag[[disc |-> TRUE, counted |-> TRUE]]

AddProbe(bag, tag) == [bag EXCEPT ![tag] = @ + 1]

RemoveProbe(bag, tag) == [bag EXCEPT ![tag] = @ - 1]

\* disconnect() took effect: every connect() still in flight started before it.
MarkDisconnected(bag) ==
  [t \in ProbeTags |->
     IF t.disc THEN bag[t] + bag[[t EXCEPT !.disc = FALSE]] ELSE 0]

\* The chain ended or starts afresh: no in-flight connect() belongs to it.
Uncount(bag) ==
  [t \in ProbeTags |->
     IF t.counted THEN 0 ELSE bag[t] + bag[[t EXCEPT !.counted = TRUE]]]

\* ------------------------------------------------- the client as a value
\* The fields of the client and the event loop's timers, as one record, so
\* that the methods compose in the order the code calls them.
Client ==
  [state |-> state, lastError |-> lastError,
   lastDisconnectTime |-> lastDisconnectTime,
   reconnectAttempts |-> reconnectAttempts, reconnectTimer |-> reconnectTimer,
   heartbeatTimer |-> heartbeatTimer, isManualDisconnect |-> isManualDisconnect,
   pendingTimeouts |-> pendingTimeouts, liveIntervals |-> liveIntervals,
   events |-> <<>>]

Set(c) ==
  /\ state' = c.state
  /\ lastError' = c.lastError
  /\ lastDisconnectTime' = c.lastDisconnectTime
  /\ reconnectAttempts' = c.reconnectAttempts
  /\ reconnectTimer' = c.reconnectTimer
  /\ heartbeatTimer' = c.heartbeatTimer
  /\ isManualDisconnect' = c.isManualDisconnect
  /\ pendingTimeouts' = c.pendingTimeouts
  /\ liveIntervals' = c.liveIntervals
  /\ events' = c.events

\* new Date(): the clock never runs backwards.
Now == {t \in 1..MaxTime : t >= lastDisconnectTime}

\* The clock readings a step can make: only a failure path calls new Date().
NowIf(fails) == IF fails THEN Now ELSE {lastDisconnectTime}

emit(c, event) == [c EXCEPT !.events = Append(@, event)]

\* if (this.reconnectTimer) { clearTimeout(this.reconnectTimer); this.reconnectTimer = null; }
\* clearTimeout of a handle whose callback already ran does nothing.
clearReconnectTimer(c) ==
  IF c.reconnectTimer # NULL
  THEN [c EXCEPT !.pendingTimeouts = IF c.reconnectTimer = "pending" THEN @ - 1 ELSE @,
                 !.reconnectTimer = NULL]
  ELSE c

stopHeartbeat(c) ==
  IF c.heartbeatTimer # NULL
  THEN [c EXCEPT !.liveIntervals = @ - 1, !.heartbeatTimer = NULL]
  ELSE c

\* Mutant: the new interval is installed without stopping the old one.
startHeartbeat_NoStop(c) ==
  [c EXCEPT !.heartbeatTimer = "live", !.liveIntervals = @ + 1]

startHeartbeat(c) ==
  LET d == stopHeartbeat(c)
  IN [d EXCEPT !.heartbeatTimer = "live", !.liveIntervals = @ + 1]

\* Mutant: the limit is tested with > instead of >=.
attemptReconnect_OffByOne(c) ==
  IF c.isManualDisconnect THEN c
  ELSE IF c.reconnectAttempts > maxReconnectAttempts
  THEN emit([c EXCEPT !.state = "disconnected"], "error")
  ELSE LET d == emit([c EXCEPT !.reconnectAttempts = @ + 1,
                               !.state = "reconnecting"], "reconnecting")
       IN [d EXCEPT !.reconnectTimer = "pending", !.pendingTimeouts = @ + 1]

\* attemptReconnect(): the new setTimeout handle overwrites this.reconnectTimer.
attemptReconnect(c) ==
  IF c.isManualDisconnect THEN c
  ELSE IF c.reconnectAttempts >= maxReconnectAttempts
  THEN emit([c EXCEPT !.state = "disconnected"], "error")
  ELSE LET d == emit([c EXCEPT !.reconnectAttempts = @ + 1,
                               !.state = "reconnecting"], "reconnecting")
       IN [d EXCEPT !.reconnectTimer = "pending", !.pendingTimeouts = @ + 1]

\* connect(), from the call to the await of gatewayStatus().
connectBegin(c) ==
  emit([clearReconnectTimer(c) EXCEPT !.isManualDisconnect = FALSE,
                                      !.state = "connecting"], "connecting")

\* Mutant: the attempt counter survives a successful connect().
connectSucceed_KeepAttempts(c) ==
  startHeartbeat(emit([c EXCEPT !.state = "connected", !.lastError = NULL], "connected"))

\* connect(), the branch status.running.
connectSucceed(c) ==
  startHeartbeat(emit([c EXCEPT !.state = "connected", !.lastError = NULL,
                                !.reconnectAttempts = 0], "connected"))

\* connect(), the state written by the catch block before it decides on a reconnect.
connectCaught(c, message, t) ==
  emit([c EXCEPT !.state = "error",
                 !.lastError = IF message = "" THEN "Connection failed" ELSE message,
                 !.lastDisconnectTime = t], "error")

\* Mutant: the catch block never starts the reconnect procedure.
connectFail_NoReconnect(c, message, t) == connectCaught(c, message, t)

\* connect(), the catch block.
connectFail(c, message, t) ==
  LET d == connectCaught(c, message, t)
  IN IF ~d.isManualDisconnect THEN attemptReconnect(d) ELSE d

\* connect(), after the await: the probe's result decides the branch.
connectResume(c, reply, t) ==
  LET s == gatewayStatus(reply)
  IN IF s.rejected THEN connectFail(c, s.message, t)
     ELSE IF s.running THEN connectSucceed(c)
     ELSE connectFail(c, "Gateway is not running", t)

\* connect(), the synchronous part: without window.ipc it throws before the probe.
connectCall(c, t) ==
  LET b == connectBegin(c)
  IN IF ~ipcAvailable THEN connectFail(b, "Electron IPC not available", t) ELSE b

\* Mutant: disconnect() leaves the heartbeat running.
disconnect_KeepHeartbeat(c) ==
  IF c.state = "disconnected" THEN c
  ELSE LET a == [c EXCEPT !.isManualDisconnect = TRUE]
           b == clearReconnectTimer(a)
           d == emit([b EXCEPT !.state = "disconnecting"], "disconnecting")
       IN emit([d EXCEPT !.state = "disconnected"], "disconnected")

\* Mutant: disconnect() without its early return.
disconnect_NoGuard(c) ==
  LET a == stopHeartbeat([c EXCEPT !.isManualDisconnect = TRUE])
      b == clearReconnectTimer(a)
      d == emit([b EXCEPT !.state = "disconnecting"], "disconnecting")
  IN emit([d EXCEPT !.state = "disconnected"], "disconnected")

disconnect(c) ==
  IF c.state = "disconnected" THEN c
  ELSE LET a == stopHeartbeat([c EXCEPT !.isManualDisconnect = TRUE])
           b == clearReconnectTimer(a)
           d == emit([b EXCEPT !.state = "disconnecting"], "disconnecting")
       IN emit([d EXCEPT !.state = "disconnected"], "disconnected")

\* reconnect(), the assignments before it calls connect().
reconnectReset(c) ==
  [c EXCEPT !.reconnectAttempts = 0, !.lastError = NULL, !.isManualDisconnect = FALSE]

\* The heartbeat callback's catch block.
heartbeatFail(c, message, t) ==
  attemptReconnect(stopHeartbeat([c EXCEPT !.lastError = message,
                                           !.lastDisconnectTime = t,
                                           !.state = "disconnected"]))

\* The heartbeat callback after its await.
heartbeatResume(c, reply, t) ==
  LET s == gatewayStatus(reply)
  IN IF s.rejected THEN heartbeatFail(c, s.message, t)
     ELSE IF ~s.running THEN heartbeatFail(c, "Gateway stopped", t)
     ELSE c

\* ------------------------------------------------------------- history
Inactive == [active |-> FALSE, autoFailed |-> 0]

Started == [active |-> TRUE, autoFailed |-> 0]

\* A connect() has just failed with `attempts` in reconnectAttempts: with 0 a
\* chain starts; otherwise a reconnect attempt of the running chain has failed.
AfterFail(attempts, counted) ==
  IF attempts = 0 THEN Started
  ELSE IF chain.active /\ counted
  THEN [chain EXCEPT !.autoFailed = IF @ < maxReconnectAttempts THEN @ + 1 ELSE @]
  ELSE chain

\* The in-flight connect() calls once the chain is `ch`: none of them belongs
\* to a chain that ended or has just started.
Recount(bag, ch, restarted) ==
  IF ch.active /\ ~restarted THEN bag ELSE Uncount(bag)

Step(op, tag, result) ==
  [op |-> op, from |-> state, disc |-> tag.disc, result |-> result]

NoTag == [disc |-> FALSE, counted |-> FALSE]

\* reconnect() called while the client rests in `disconnected` after its
\* retries were exhausted or after disconnect(); autos counts the reconnect
\* timer callbacks that ran since (one more than the limit is remembered).
NotRevived == [on |-> FALSE, autos |-> 0]

AtRest ==
  /\ state = "disconnected"
  /\ reconnectAttempts >= maxReconnectAttempts \/ isManualDisconnect

Revived == [on |-> AtRest, autos |-> 0]

AutoAttempt ==
  IF revived.on /\ revived.autos <= maxReconnectAttempts
  THEN [revived EXCEPT !.autos = @ + 1]
  ELSE revived

AfterReply(ok) == IF ok THEN NotRevived ELSE revived

\* Before any getBackoffDelay() call.
NoBackoff == [op |-> "none", attempt |-> 0, random |-> 0, delay |-> 0]

\* Before any call on the emitter.
NoCall == [op |-> "none", fn |-> NULL]

\* No emit() has just run.
NoDelivery == [started |-> <<>>, calls |-> <<>>, escaped |-> FALSE]

\* useState initializer with nothing stored: {}.
EmptyMapping == <<>>

\* localStorage.getItem() of a key that is not there.
Absent == [kind |-> "absent"]

\* The `mapping` value is an object whose entries all have a child list.
NoDefect == [kind |-> "object", listless |-> {}]

\* No IPC handler has been invoked.
NoIpc == [channel |-> "idle"]

\* listSessions() has not been called.
NoListing == [called |-> FALSE]

\* MissionControl after its first render: no sessions fetched, the spawn form
\* closed and empty, nothing in flight.
NoMission ==
  [sessions |-> <<>>, showSpawnForm |-> FALSE, spawnTask |-> "",
   spawnLabel |-> "", spawning |-> FALSE, error |-> "null",
   inFlight |-> [kind |-> "none"], last |-> [kind |-> "none"]]

\* The push-socket client after construction: no socket, not connected.
NoWs ==
  [sockets |-> [i \in 1..MaxSockets |-> "closed"], socket |-> 0,
   isConnected |-> FALSE, reconnectAttempts |-> 0, timers |-> <<>>,
   emitted |-> <<>>, quiet |-> FALSE, autos |-> 0, last |-> [op |-> "init"]]

\* A command or test the smoke test has not reached.
NotRun == [kind |-> "notrun"]

\* The smoke test script starts.
NoSmoke ==
  [pc |-> "gateway", exitCode |-> -1, gatewayStatus |-> NotRun,
   agentsList |-> NotRun, sessionsList |-> NotRun, sessionsJson |-> NotRun,
   build |-> NotRun]

\* ------------------------------------------------------------------ Init
Init ==
  /\ state = "disconnected"
  /\ lastError = NULL
  /\ lastDisconnectTime = NoDate
  /\ reconnectAttempts = 0
  /\ reconnectTimer = NULL
  /\ heartbeatTimer = NULL
  /\ isManualDisconnect = FALSE
  /\ pendingTimeouts = 0
  /\ liveIntervals = 0
  /\ ipcAvailable \in BOOLEAN
  /\ connectProbes = NoProbes
  /\ heartbeatProbes = 0
  /\ events = <<>>
  /\ last = [op |-> "init", from |-> "disconnected", disc |-> FALSE,
             result |-> "none"]
  /\ chain = Inactive
  /\ quiet = FALSE
  /\ revived = NotRevived
  /\ recovering = FALSE
  /\ backoff = NoBackoff
  /\ listeners = <<>>
  /\ called = NoCall
  /\ delivery = NoDelivery
  /\ mapping = EmptyMapping
  /\ storage = Absent
  /\ effectPending = TRUE
  /\ spawnCalls = 0
  /\ defect = NoDefect
  /\ sessionOp = "mount"
  /\ effectStored = FALSE
  /\ crashed = FALSE
  /\ ipc = NoIpc
  /\ listing = NoListing
  /\ smoke = NoSmoke
  /\ mission = NoMission
  /\ ws = NoWs

\* --------------------------------------------------------------- actions
CanProbe == ipcAvailable => ProbeCount(connectProbes) < MaxConnectProbes

\* The user calls connect().
Connect ==
  /\ CanProbe
  /\ \E t \in NowIf(~ipcAvailable) :
       \E c \in {connectCall(Client, t)} :
       LET ch == IF ~ipcAvailable /\ reconnectAttempts = 0 THEN Started ELSE Inactive
       IN /\ c.pendingTimeouts <= MaxTimeouts
          /\ Set(c)
          /\ chain' = ch
          /\ connectProbes' = IF ipcAvailable
                              THEN AddProbe(Uncount(connectProbes), NoTag)
                              ELSE Uncount(connectProbes)
          /\ last' = Step("connect", NoTag, IF ipcAvailable THEN "none" ELSE "fail")
  /\ quiet' = FALSE
  /\ revived' = NotRevived
  /\ recovering' = (recovering /\ ipcAvailable)
  /\ UNCHANGED <<ipcAvailable, heartbeatProbes>>
  /\ UNCHANGED exceptGateway

\* The user calls reconnect() (the Reconnect button of ConnectionDiagnostics).
Reconnect ==
  /\ CanProbe
  /\ \E t \in NowIf(~ipcAvailable) :
       \E c \in {connectCall(reconnectReset(Client), t)} :
       LET ch == IF ~ipcAvailable THEN Started ELSE Inactive
       IN /\ c.pendingTimeouts <= MaxTimeouts
          /\ Set(c)
          /\ chain' = ch
          /\ connectProbes' = IF ipcAvailable
                              THEN AddProbe(Uncount(connectProbes), NoTag)
                              ELSE Uncount(connectProbes)
          /\ last' = Step("reconnect", NoTag, IF ipcAvailable THEN "none" ELSE "fail")
  /\ quiet' = FALSE
  /\ revived' = Revived
  /\ recovering' = (recovering /\ ipcAvailable)
  /\ UNCHANGED <<ipcAvailable, heartbeatProbes>>
  /\ UNCHANGED exceptGateway

\* The user calls disconnect().
Disconnect ==
  /\ \E c \in {disconnect(Client)} : Set(c)
  /\ chain' = Inactive
  /\ connectProbes' = IF state # "disconnected"
                      THEN MarkDisconnected(Uncount(connectProbes))
                      ELSE Uncount(connectProbes)
  /\ quiet' = IF state = "reconnecting" THEN TRUE ELSE quiet
  /\ last' = Step("disconnect", NoTag, "none")
  /\ revived' = NotRevived
  /\ recovering' = FALSE
  /\ UNCHANGED <<ipcAvailable, heartbeatProbes>>
  /\ UNCHANGED exceptGateway

\* The event loop's view of the timeout that runs next: the one
\* this.reconnectTimer refers to, or one whose handle was overwritten.
Fired(which) ==
  IF which = "field"
  THEN [Client EXCEPT !.reconnectTimer = "fired", !.pendingTimeouts = @ - 1]
  ELSE [Client EXCEPT !.pendingTimeouts = @ - 1]

\* A reconnect setTimeout callback runs: it calls connect().
TimerFire ==
  /\ CanProbe
  /\ \E which \in {"field", "orphan"}, t \in NowIf(~ipcAvailable) :
       /\ which = "field" => reconnectTimer = "pending"
       /\ which = "orphan" =>
            pendingTimeouts > (IF reconnectTimer = "pending" THEN 1 ELSE 0)
       /\ \E c \in {connectCall(Fired(which), t)} :
          LET tag == [disc |-> FALSE, counted |-> chain.active]
              ch == IF ~ipcAvailable THEN AfterFail(reconnectAttempts, chain.active)
                    ELSE chain
          IN /\ c.pendingTimeouts <= MaxTimeouts
             /\ Set(c)
             /\ chain' = ch
             /\ connectProbes' = IF ipcAvailable THEN AddProbe(connectProbes, tag)
                                 ELSE Recount(connectProbes, ch, reconnectAttempts = 0)
             /\ last' = Step("timerFire", tag, IF ipcAvailable THEN "none" ELSE "fail")
  /\ revived' = AutoAttempt
  /\ recovering' = (recovering /\ ipcAvailable)
  /\ UNCHANGED <<ipcAvailable, heartbeatProbes, quiet>>
  /\ UNCHANGED exceptGateway

\* The status probe of an in-flight connect() resolves or rejects.
ConnectProbe ==
  \E tag \in ProbeTags, reply \in IpcReplies : \E t \in NowIf(reply # "running") :
    /\ connectProbes[tag] > 0
    /\ \E c \in {connectResume(Client, reply, t)} :
       LET ok == reply = "running"
           ch == IF ok THEN Inactive ELSE AfterFail(reconnectAttempts, tag.counted)
       IN /\ c.pendingTimeouts <= MaxTimeouts
          /\ Set(c)
          /\ chain' = ch
          /\ connectProbes' = Recount(RemoveProbe(connectProbes, tag), ch,
                                      ~ok /\ reconnectAttempts = 0)
          /\ last' = Step("connectProbe", tag, IF ok THEN "ok" ELSE "fail")
          /\ revived' = AfterReply(ok)
    /\ recovering' = FALSE
    /\ UNCHANGED <<ipcAvailable, heartbeatProbes, quiet>>
    /\ UNCHANGED exceptGateway

\* The heartbeat setInterval callback runs and issues its status probe.
HeartbeatTick ==
  /\ liveIntervals > 0
  /\ heartbeatProbes < MaxHeartbeatProbes
  /\ heartbeatProbes' = heartbeatProbes + 1
  /\ events' = <<>>
  /\ last' = Step("heartbeatTick", NoTag, "none")
  /\ UNCHANGED <<state, lastError, lastDisconnectTime, reconnectAttempts,
                 reconnectTimer, heartbeatTimer, isManualDisconnect,
                 pendingTimeouts, liveIntervals, ipcAvailable, connectProbes,
                 chain, quiet, revived, recovering>>
  /\ UNCHANGED exceptGateway

\* The status probe of a heartbeat callback resolves or rejects.
HeartbeatProbe ==
  \E reply \in IpcReplies : \E t \in NowIf(reply # "running") :
    /\ heartbeatProbes > 0
    /\ \E c \in {heartbeatResume(Client, reply, t)} :
       LET ok == reply = "running"
           ch == IF ok THEN Inactive ELSE chain
       IN /\ c.pendingTimeouts <= MaxTimeouts
          /\ Set(c)
          /\ chain' = ch
          /\ connectProbes' = Recount(connectProbes, ch, FALSE)
          /\ last' = Step("heartbeatProbe", NoTag, IF ok THEN "ok" ELSE "fail")
          /\ revived' = AfterReply(ok)
          /\ recovering' = IF ok THEN recovering ELSE state = "connected"
    /\ heartbeatProbes' = heartbeatProbes - 1
    /\ UNCHANGED <<ipcAvailable, quiet>>
    /\ UNCHANGED exceptGateway

Next ==
  \/ Connect
  \/ Reconnect
  \/ Disconnect
  \/ TimerFire
  \/ ConnectProbe
  \/ HeartbeatTick
  \/ HeartbeatProbe

Spec == Init /\ [][Next]_vars

\* ---------------------------------------------------------------- claims
Emitted(event) == \E i \in 1..Len(events) : events[i] = event

\* C1: once a connect() has failed with reconnectAttempts = 0 and, with every
\* probe failing and no explicit connect()/reconnect()/disconnect(), the 5th
\* automatic reconnect attempt has failed, the state is `disconnected`, no
\* reconnect timer is pending (so no timer callback can invoke connect() again:
\* TimerFire needs a pending timeout).
C1_ExhaustedStaysDown ==
  (chain.active /\ chain.autoFailed = maxReconnectAttempts) =>
    /\ state = "disconnected"
    /\ pendingTimeouts = 0

\* C2: disconnect() called while `reconnecting` leaves no reconnect timer, and
\* from then on no step emits `connecting` until connect() or reconnect() is
\* called explicitly.
C2_NoConnectingAfterDisconnect ==
  /\ (last.op = "disconnect" /\ last.from = "reconnecting") => reconnectTimer = NULL
  /\ quiet => ~Emitted("connecting")

\* C3: at most one reconnect timer is pending in every reachable state.
C3_OneReconnectTimer == pendingTimeouts <= 1

\* C4: at most one heartbeat interval is live, and it is the one
\* this.heartbeatTimer refers to.
C4_OneHeartbeat ==
  liveIntervals = (IF heartbeatTimer = NULL THEN 0 ELSE 1)

\* C4 witness: a connect() succeeded while the client was already connected
\* (its heartbeat running), and one heartbeat is live.
C4_Witness ==
  /\ last.op = "connectProbe" /\ last.result = "ok" /\ last.from = "connected"
  /\ liveIntervals = 1

\* C5: a heartbeat probe that fails while the state is `connected` ends its
\* step in `reconnecting`, with a reconnect timer scheduled and the heartbeat
\* stopped.
C5_HeartbeatFailReconnects ==
  (last.op = "heartbeatProbe" /\ last.result = "fail" /\ last.from = "connected") =>
    /\ state = "reconnecting"
    /\ reconnectTimer = "pending"
    /\ heartbeatTimer = NULL

\* C6: the probe of a connect() that disconnect() overtook resolves without
\* effect: the state stays `disconnected`, no heartbeat is started, no
\* reconnect timer is scheduled and `connected` is not emitted.
C6_StaleProbeIgnored ==
  [][(state = "disconnected" /\ last'.op = "connectProbe" /\ last'.disc) =>
       /\ state' = "disconnected"
       /\ UNCHANGED <<heartbeatTimer, liveIntervals, reconnectTimer, pendingTimeouts>>
       /\ \A i \in 1..Len(events') : events'[i] # "connected"]_vars

FailedConnect ==
  /\ last.op \in {"connect", "reconnect", "timerFire", "connectProbe"}
  /\ last.result = "fail"

\* C7: a connect() that fails with no disconnect() since it started leaves
\* `error` in the same step, for `reconnecting` with a timer scheduled or,
\* with the attempts exhausted, for `disconnected`; `error` is a resting
\* state only under a manual disconnect.
C7_ErrorNotResting ==
  /\ (FailedConnect /\ ~last.disc) =>
       \/ state = "reconnecting" /\ reconnectTimer = "pending" /\ pendingTimeouts >= 1
       \/ state = "disconnected" /\ reconnectAttempts >= maxReconnectAttempts
  /\ state = "error" => isManualDisconnect

\* C7 witness: a probe failed with the attempts exhausted and no disconnect().
C7_Witness ==
  /\ FailedConnect /\ ~last.disc /\ last.op = "connectProbe"
  /\ state = "disconnected"

\* C8: while `connected`, reconnectAttempts = 0, lastError = null and the
\* heartbeat is live.
C8_ConnectedIsClean ==
  state = "connected" =>
    /\ reconnectAttempts = 0
    /\ lastError = NULL
    /\ heartbeatTimer = "live"
    /\ liveIntervals >= 1

\* C8 witness: connected again after an earlier failure was recorded.
C8_Witness ==
  /\ state = "connected"
  /\ lastDisconnectTime # NoDate
  /\ last.op = "connectProbe"

\* C9: disconnect() in a state other than `disconnected` emits `disconnecting`
\* then `disconnected`, once each, and leaves state = `disconnected` with the
\* heartbeat timer and the reconnect timer null.
C9_DisconnectEffect ==
  (last.op = "disconnect" /\ last.from # "disconnected") =>
    /\ events = <<"disconnecting", "disconnected">>
    /\ state = "disconnected"
    /\ heartbeatTimer = NULL
    /\ reconnectTimer = NULL

\* C9 witness: disconnect() was called while connected.
C9_Witness ==
  /\ last.op = "disconnect" /\ last.from = "connected"
  /\ state = "disconnected"

\* C10: disconnect() in state `disconnected` emits nothing and changes no
\* field and no timer.
C10_DisconnectNoOp ==
  [][(state = "disconnected" /\ last'.op = "disconnect") =>
       /\ events' = <<>>
       /\ UNCHANGED <<state, lastError, lastDisconnectTime, reconnectAttempts,
                      isManualDisconnect, reconnectTimer, heartbeatTimer,
                      pendingTimeouts, liveIntervals>>]_vars

\* C10 witness: disconnect() was called in `disconnected` with an error
\* recorded and a reconnect timeout still pending.
C10_Witness ==
  /\ last.op = "disconnect" /\ last.from = "disconnected"
  /\ lastError # NULL
  /\ pendingTimeouts > 0

\* The client has come to rest: `disconnected`, no reconnect timeout scheduled,
\* no call awaiting a probe, no heartbeat installed.
Settled ==
  /\ state = "disconnected"
  /\ pendingTimeouts = 0
  /\ ProbeCount(connectProbes) = 0
  /\ heartbeatProbes = 0
  /\ liveIntervals = 0

\* C11: reconnect() has reset reconnectAttempts to 0, lastError to null and the
\* manual-disconnect flag to false when it issues its probe; and after a
\* reconnect() called at rest (retries exhausted, or after disconnect()), with
\* every probe failing and no further explicit call, the reconnect timer
\* invokes connect() exactly 5 times: never a 6th time, and the client does not
\* come to rest in `disconnected` before the 5th.
C11_ReconnectRetriesFive ==
  /\ (last.op = "reconnect" /\ ipcAvailable) =>
       (reconnectAttempts = 0 /\ lastError = NULL /\ ~isManualDisconnect)
  /\ revived.on => revived.autos <= maxReconnectAttempts
  /\ (revived.on /\ Settled) => revived.autos = maxReconnectAttempts

\* C12: after a heartbeat probe failed in `connected`, while every later probe
\* reports running and disconnect() is not called, the client is `connected`
\* again or a step that leads there is still due: a reconnect timeout is
\* scheduled or a connect() awaits its probe.  (When neither is due nothing
\* will ever run, so `connected` is not reached.)
C12_HeartbeatFailRecovers ==
  recovering => (pendingTimeouts > 0 \/ ProbeCount(connectProbes) > 0)

\* C13: the client starts in `disconnected`, and a connect() continuation,
\* the only code that writes `connected`, and `error` after an await, finds
\* the state `connecting` when it writes (the synchronous failure of connect()
\* writes `error` right after `connecting`).
C13_EnteredFromConnecting ==
  /\ last.op = "init" => state = "disconnected"
  /\ last.op = "connectProbe" => last.from = "connecting"

\* C31: a heartbeat interval is live only while the state is `connected`: in
\* every other state this.heartbeatTimer is null and the event loop holds no
\* heartbeat interval (also after connect() or reconnect() is called while
\* connected).
C31_HeartbeatOnlyConnected ==
  state # "connected" => (heartbeatTimer = NULL /\ liveIntervals = 0)

\* C32: reconnectAttempts stays within 0 .. maxReconnectAttempts, and a step
\* changes it only by the +1 of attemptReconnect() (which emits
\* `reconnecting`), by the reset of a successful connect(), or by the reset
\* of reconnect() (followed by the +1 when its connect() fails at once).
C32_AttemptsBounded ==
  /\ [](reconnectAttempts \in 0 .. maxReconnectAttempts)
  /\ [][\/ reconnectAttempts' = reconnectAttempts
        \/ /\ reconnectAttempts' = reconnectAttempts + 1
           /\ state' = "reconnecting"
           /\ \E i \in 1..Len(events') : events'[i] = "reconnecting"
        \/ /\ reconnectAttempts' = 0
           /\ last'.op = "connectProbe" /\ last'.result = "ok"
        \/ /\ last'.op = "reconnect"
           /\ reconnectAttempts' = (IF last'.result = "fail" THEN 1 ELSE 0)]_vars

\* C32 witness: attemptReconnect() ran with the counter at its limit: it gave
\* up (state `disconnected`, `error` emitted) and left the counter at 5.
C32_Witness ==
  /\ reconnectAttempts = maxReconnectAttempts
  /\ last.result = "fail"
  /\ state = "disconnected"
  /\ Emitted("error")

\* ================================================================ backoff
\* getBackoffDelay (GatewayClient.ts) as a function of its argument and of
\* the value Math.random() returns, and the delay attemptReconnect() passes
\* to setTimeout.
MaxAttempt == 5     \* largest attempt number passed to getBackoffDelay()
JitterSteps == 16   \* Math.random() returns k / JitterSteps, k in 0 .. JitterSteps - 1

baseDelay == 1000
maxDelay == 16000

Randoms == 0 .. JitterSteps - 1

RECURSIVE Pow2(_)
Pow2(n) == IF n = 0 THEN 1 ELSE 2 * Pow2(n - 1)

Min(a, b) == IF a <= b THEN a ELSE b

\* Math.round(num / den) for num >= 0, den > 0: halves round up.
Round(num, den) == (2 * num + den) \div (2 * den)

\* Mutant: the jitter factor is 0.5 instead of 0.25:
\* delay + delay * 0.5 * (2k/J - 1) = delay * (J + 2k) / (2J).
getBackoffDelay_HalfJitter(attempt, k) ==
  LET delay == Min(baseDelay * Pow2(attempt), maxDelay)
  IN Round(delay * (JitterSteps + 2 * k), 2 * JitterSteps)

\* Mutant: the jitter only adds, up to half the delay:
\* delay + delay * 0.5 * (k/J) = delay * (2J + k) / (2J).
getBackoffDelay_AddedJitter(attempt, k) ==
  LET delay == Min(baseDelay * Pow2(attempt), maxDelay)
  IN Round(delay * (2 * JitterSteps + k), 2 * JitterSteps)

\* delay + jitter = delay + delay * 0.25 * (2k/J - 1) = delay * (3J + 2k) / (4J)
getBackoffDelay(attempt, k) ==
  LET exponential == baseDelay * Pow2(attempt)
      delay == Min(exponential, maxDelay)
  IN Round(delay * (3 * JitterSteps + 2 * k), 4 * JitterSteps)

\* getBackoffDelay(n) is called with some n and some draw of Math.random().
BackoffCall ==
  /\ \E n \in 0 .. MaxAttempt, k \in Randoms :
       backoff' = [op |-> "call", attempt |-> n, random |-> k,
                   delay |-> getBackoffDelay(n, k)]
  /\ UNCHANGED exceptBackoff

\* attemptReconnect() with this.reconnectAttempts = n and no manual
\* disconnect: at the limit it gives up, below it the delay it computes is
\* the one carried by the `reconnecting` event and passed to setTimeout.
BackoffSchedule ==
  /\ \E n \in 0 .. MaxAttempt, k \in Randoms :
       backoff' = IF n >= maxReconnectAttempts
                  THEN [op |-> "giveUp", attempt |-> n, random |-> k, delay |-> 0]
                  ELSE [op |-> "schedule", attempt |-> n, random |-> k,
                        delay |-> getBackoffDelay(n, k)]
  /\ UNCHANGED exceptBackoff

BackoffNext ==
  \/ BackoffCall
  \/ BackoffSchedule

BackoffSpec == Init /\ [][BackoffNext]_vars

\* C14: for every attempt number n (0..4 and beyond) and every jitter draw,
\* getBackoffDelay(n) returns d with
\* 0.75 * min(1000 * 2^n, 16000) <= d <= 1.25 * min(1000 * 2^n, 16000).
C14_BackoffWithinQuarter ==
  backoff.op = "call" =>
    LET nominal == Min(baseDelay * Pow2(backoff.attempt), maxDelay)
    IN /\ 3 * nominal <= 4 * backoff.delay
       /\ 4 * backoff.delay <= 5 * nominal

\* A call with n = 4 whose jitter is the most negative one: the result is
\* 0.75 * 16000.
C14_Witness ==
  /\ backoff.op = "call"
  /\ backoff.attempt = 4
  /\ backoff.random = 0
  /\ 4 * backoff.delay = 3 * maxDelay

MaxListeners == 3   \* longest handler array

\* The handler functions a caller registers, by what they do when invoked:
\* "a" and "b" return; "thrower" throws; "selfRemover" calls off(event, itself);
\* "remover" calls off(event, a).
Handlers == {"a", "b", "thrower", "selfRemover", "remover"}

Throws(h) == h = "thrower"

Removes(h) ==
  CASE h = "selfRemover" -> "selfRemover"
    [] h = "remover"     -> "a"
    [] OTHER             -> NULL

\* An element of the array is a function identity: the handler itself
\* (wrapper = 0) or a wrappedHandler closure that once() created around it.
Plain(h) == [fn |-> h, wrapper |-> 0]

Wrappers == 1 .. MaxListeners + 1

\* once() creates a closure distinct from every function in the array.
FreshWrapper(ls) ==
  CHOOSE k \in Wrappers :
    /\ \A i \in 1..Len(ls) : ls[i].wrapper # k
    /\ \A j \in 1..(k - 1) : \E i \in 1..Len(ls) : ls[i].wrapper = j

\* listeners.indexOf(handler): 0 stands for -1.
IndexOf(ls, e) ==
  IF \E i \in 1..Len(ls) : ls[i] = e
  THEN CHOOSE i \in 1..Len(ls) : ls[i] = e /\ \A j \in 1..(i - 1) : ls[j] # e
  ELSE 0

\* listeners.splice(index, 1)
Splice(ls, i) == [j \in 1..(Len(ls) - 1) |-> IF j < i THEN ls[j] ELSE ls[j + 1]]

on(ls, e) == Append(ls, e)

off(ls, e) ==
  LET index == IndexOf(ls, e)
  IN IF index > 0 THEN Splice(ls, index) ELSE ls

\* fn(...args) for one element of the array: the handler runs (and may call
\* off), then a wrappedHandler whose handler returned removes itself.
Invoke(ls, e) ==
  LET target == Removes(e.fn)
      afterHandler == IF target = NULL THEN ls ELSE off(ls, Plain(target))
      thrown == Throws(e.fn)
  IN [listeners |-> IF e.wrapper > 0 /\ ~thrown THEN off(afterHandler, e)
                    ELSE afterHandler,
      thrown |-> thrown]

\* Mutant: forEach without the try/catch: the first exception ends the emit
\* and reaches the caller.
RECURSIVE forEach_NoCatch(_, _, _, _)
forEach_NoCatch(ls, k, len, calls) ==
  IF k > len THEN [listeners |-> ls, calls |-> calls, escaped |-> FALSE]
  ELSE IF k > Len(ls) THEN forEach_NoCatch(ls, k + 1, len, calls)
  ELSE LET r == Invoke(ls, ls[k])
       IN IF r.thrown
          THEN [listeners |-> r.listeners, calls |-> Append(calls, ls[k]),
                escaped |-> TRUE]
          ELSE forEach_NoCatch(r.listeners, k + 1, len, Append(calls, ls[k]))

\* listeners.forEach(fn => { try { fn(...args) } catch { console.error } }):
\* the indices 0 .. length - 1 of the array as it was when forEach started
\* are visited in order; an index the array no longer has is skipped; the
\* element read is the one the array holds at that index now.
RECURSIVE forEach(_, _, _, _)
forEach(ls, k, len, calls) ==
  IF k > len THEN [listeners |-> ls, calls |-> calls, escaped |-> FALSE]
  ELSE IF k > Len(ls) THEN forEach(ls, k + 1, len, calls)
  ELSE LET r == Invoke(ls, ls[k])
       IN forEach(r.listeners, k + 1, len, Append(calls, ls[k]))

\* on(event, handler)
On ==
  /\ Len(listeners) < MaxListeners
  /\ \E h \in Handlers :
       /\ listeners' = on(listeners, Plain(h))
       /\ called' = [op |-> "on", fn |-> h]
  /\ delivery' = NoDelivery
  /\ UNCHANGED exceptEmitter

\* once(event, handler)
Once ==
  /\ Len(listeners) < MaxListeners
  /\ \E h \in Handlers :
       /\ listeners' = on(listeners, [fn |-> h, wrapper |-> FreshWrapper(listeners)])
       /\ called' = [op |-> "once", fn |-> h]
  /\ delivery' = NoDelivery
  /\ UNCHANGED exceptEmitter

\* off(event, handler), called from outside a handler.
Off ==
  /\ \E h \in Handlers :
       /\ listeners' = off(listeners, Plain(h))
       /\ called' = [op |-> "off", fn |-> h]
  /\ delivery' = NoDelivery
  /\ UNCHANGED exceptEmitter

\* emit(event)
Emit ==
  /\ \E r \in {forEach(listeners, 1, Len(listeners), <<>>)} :
       /\ listeners' = r.listeners
       /\ delivery' = [started |-> listeners, calls |-> r.calls,
                       escaped |-> r.escaped]
  /\ called' = [op |-> "emit", fn |-> NULL]
  /\ UNCHANGED exceptEmitter

\* removeAllListeners(event)
RemoveAllListeners ==
  /\ listeners' = <<>>
  /\ called' = [op |-> "removeAllListeners", fn |-> NULL]
  /\ delivery' = NoDelivery
  /\ UNCHANGED exceptEmitter

EmitterNext ==
  \/ On
  \/ Once
  \/ Off
  \/ Emit
  \/ RemoveAllListeners

\* window.ipc plays no part in the emitter.
EmitterInit == Init /\ ipcAvailable

EmitterSpec == EmitterInit /\ [][EmitterNext]_vars

\* C16: an emit invokes every function that is in the array when the emit
\* starts exactly once, in registration order, whatever the handlers remove
\* while it runs.
C16_EveryHandlerOnce ==
  called.op = "emit" => delivery.calls = delivery.started

\* The element removes something from the array when it is invoked.
Removing(e) == Removes(e.fn) # NULL \/ (e.wrapper > 0 /\ ~Throws(e.fn))

Registered(ls, h) == IndexOf(ls, Plain(h)) > 0

\* C18: a second on(e, h) right after on(e, h) leaves the array as the first
\* left it; a second off(e, h) right after off(e, h) leaves the array as the
\* first left it; off(e, h) of a handler that is not registered changes
\* nothing.
C18_OnOffIdempotent ==
  [][/\ (called.op = "on" /\ called' = called) => listeners' = listeners
     /\ (called.op = "off" /\ called' = called) => listeners' = listeners
     /\ (called'.op = "off" /\ ~Registered(listeners, called'.fn))
          => listeners' = listeners]_vars

\* C33: an emit invokes every wrappedHandler that once() put in the array, and
\* when the emit is over none of them is in the array any more (so no later
\* emit invokes it), whether its handler returned or threw.
C33_OnceFiresOnce ==
  called.op = "emit" =>
    \A i \in 1..Len(delivery.started) :
      delivery.started[i].wrapper > 0 =>
        /\ IndexOf(delivery.calls, delivery.started[i]) > 0
        /\ IndexOf(listeners, delivery.started[i]) = 0

\* ====================================================== session hierarchy
\* SessionProvider (src/apps/claw_dashboard/src/contexts/SessionContext.tsx):
\* the mapping state, its updaters and the effect that persists it.
MaxSpawnCalls == 2   \* addSpawn() calls in one run

SessionIds == {"s1", "s2", "s3"}

\* A missing key and a key holding undefined read the same.
Undefined == "undefined"

\* The label argument: omitted, the empty string (falsy), or a text.
Labels == {Undefined, "", "L"}

Truthy(label) == label # Undefined /\ label # ""

Has(m, id) == id \in DOMAIN m

Range(seq) == {seq[i] : i \in 1..Len(seq)}

\* updated[id] = entry on the copy { ...prev }
Put(m, id, entry) == [x \in DOMAIN m \cup {id} |-> IF x = id THEN entry ELSE m[x]]

\* Mutant: the child is pushed without the includes() test.
addSpawn_AlwaysPush(prev, parentId, childId, label) ==
  LET u1 == IF ~Has(prev, parentId)
            THEN Put(prev, parentId,
                     [childIds |-> <<>>, parentId |-> Undefined, label |-> Undefined])
            ELSE prev
      u2 == IF ~Has(u1, childId)
            THEN Put(u1, childId,
                     [childIds |-> <<>>, parentId |-> parentId, label |-> label])
            ELSE [u1 EXCEPT ![childId].parentId = parentId,
                            ![childId].label = IF Truthy(label) THEN label ELSE @]
  IN [u2 EXCEPT ![parentId].childIds = Append(@, childId)]

\* The updater addSpawn passes to setMapping.
addSpawn(prev, parentId, childId, label) ==
  LET u1 == IF ~Has(prev, parentId)
            THEN Put(prev, parentId,
                     [childIds |-> <<>>, parentId |-> Undefined, label |-> Undefined])
            ELSE prev
      u2 == IF ~Has(u1, childId)
            THEN Put(u1, childId,
                     [childIds |-> <<>>, parentId |-> parentId, label |-> label])
            ELSE [u1 EXCEPT ![childId].parentId = parentId,
                            ![childId].label = IF Truthy(label) THEN label ELSE @]
  IN IF childId \notin Range(u2[parentId].childIds)
     THEN [u2 EXCEPT ![parentId].childIds = Append(@, childId)]
     ELSE u2

\* mapping[sessionId]?.childIds || []
getChildren(m, sessionId) == IF Has(m, sessionId) THEN m[sessionId].childIds ELSE <<>>

\* mapping[sessionId]?.parentId
getParent(m, sessionId) == IF Has(m, sessionId) THEN m[sessionId].parentId ELSE Undefined

\* updated[parentId].childIds.includes(...) on an entry that has no child
\* list throws a TypeError inside the updater.
addSpawnThrows(prev, d, parentId) == Has(prev, parentId) /\ parentId \in d.listless

\* mapping[sessionId] throws a TypeError when mapping is null.
lookupThrows(d) == d.kind = "null"

EntryKeys == {"childIds", "parentId", "label"}

\* Mutant: falsy values (the empty label) are left out of the text as well.
StringifyEntry_DropFalsy(e, listless) ==
  [k \in {k \in EntryKeys : IF k = "childIds" THEN ~listless
                            ELSE e[k] # Undefined /\ e[k] # ""} |-> e[k]]

\* JSON.stringify of one entry: a property whose value is undefined is left
\* out of the text.
StringifyEntry(e, listless) ==
  [k \in {k \in EntryKeys : IF k = "childIds" THEN ~listless
                            ELSE e[k] # Undefined} |-> e[k]]

\* JSON.stringify(mapping): the stored text, by the JSON value it denotes.
\* null and a number print as themselves.
Stringify(m, d) ==
  [kind |-> "json", top |-> d.kind,
   entries |-> [id \in DOMAIN m |-> StringifyEntry(m[id], id \in d.listless)]]

\* Reading a property the parsed object does not have gives undefined.
ParseEntry(j) ==
  [childIds |-> IF "childIds" \in DOMAIN j THEN j.childIds ELSE <<>>,
   parentId |-> IF "parentId" \in DOMAIN j THEN j.parentId ELSE Undefined,
   label    |-> IF "label" \in DOMAIN j THEN j.label ELSE Undefined]

\* JSON.parse(stored)
Parse(content) ==
  [mapping |-> [id \in DOMAIN content.entries |-> ParseEntry(content.entries[id])],
   defect  |-> [kind |-> content.top,
                listless |-> {id \in DOMAIN content.entries :
                                "childIds" \notin DOMAIN content.entries[id]}]]

\* The useState initializer: stored ? JSON.parse(stored) : {}, and {} when
\* JSON.parse throws.
Load(content) ==
  IF content.kind = "json" THEN Parse(content)
  ELSE [mapping |-> EmptyMapping, defect |-> NoDefect]

\* What another writer, or an older build, may have left under the key: text
\* that is not JSON, the JSON texts null and 7, and an object with an entry
\* that has no child list.
ForeignContents ==
  { [kind |-> "text"],
    [kind |-> "json", top |-> "null", entries |-> <<>>],
    [kind |-> "json", top |-> "number", entries |-> <<>>],
    [kind |-> "json", top |-> "object",
     entries |-> [id \in {"s1"} |-> [k \in {"label"} |-> "L"]]] }

\* addSpawn(parentId, childId, label): the updater returns a new object, so
\* the persistence effect is queued.  { ...prev } of null or of a number is {}.
AddSpawn ==
  /\ ~crashed
  /\ spawnCalls < MaxSpawnCalls
  /\ spawnCalls' = spawnCalls + 1
  /\ \E parentId \in SessionIds, childId \in SessionIds, label \in Labels :
       IF addSpawnThrows(mapping, defect, parentId)
       THEN /\ crashed' = TRUE
            /\ UNCHANGED <<mapping, defect, effectPending>>
       ELSE /\ mapping' = addSpawn(mapping, parentId, childId, label)
            /\ defect' = [defect EXCEPT !.kind = "object"]
            /\ effectPending' = TRUE
            /\ UNCHANGED crashed
  /\ sessionOp' = "addSpawn"
  /\ UNCHANGED <<storage, effectStored>>
  /\ UNCHANGED exceptSession

\* clearMapping(): setMapping({}) and localStorage.removeItem(); the new
\* object queues the persistence effect.
ClearMapping ==
  /\ ~crashed
  /\ mapping' = EmptyMapping
  /\ defect' = NoDefect
  /\ storage' = Absent
  /\ effectPending' = TRUE
  /\ sessionOp' = "clearMapping"
  /\ UNCHANGED <<spawnCalls, effectStored, crashed>>
  /\ UNCHANGED exceptSession

\* The persistence effect runs after the commit: setItem stores the text, or
\* throws (quota, storage unavailable) and the error is logged.
PersistEffect ==
  /\ ~crashed
  /\ effectPending
  /\ \E stored \in BOOLEAN :
       /\ storage' = IF stored THEN Stringify(mapping, defect) ELSE storage
       /\ effectStored' = stored
  /\ effectPending' = FALSE
  /\ UNCHANGED <<mapping, spawnCalls, defect, sessionOp, crashed>>
  /\ UNCHANGED exceptSession

\* The page is reloaded: a new provider mounts and reads what is stored.
Remount ==
  /\ \E l \in {Load(storage)} :
       /\ mapping' = l.mapping
       /\ defect' = l.defect
  /\ effectPending' = TRUE
  /\ sessionOp' = "mount"
  /\ crashed' = FALSE
  /\ UNCHANGED <<storage, spawnCalls, effectStored>>
  /\ UNCHANGED exceptSession

SessionNext ==
  \/ AddSpawn
  \/ ClearMapping
  \/ PersistEffect
  \/ Remount

\* window.ipc plays no part in the session hierarchy.
SessionInit == Init /\ ipcAvailable

SessionSpec == SessionInit /\ [][SessionNext]_vars

\* A provider mounts on storage that something else wrote.
MountForeign ==
  /\ \E content \in ForeignContents :
       /\ storage' = content
       /\ \E l \in {Load(content)} :
            /\ mapping' = l.mapping
            /\ defect' = l.defect
  /\ effectPending' = TRUE
  /\ sessionOp' = "mount"
  /\ crashed' = FALSE
  /\ UNCHANGED <<spawnCalls, effectStored>>
  /\ UNCHANGED exceptSession

\* A consumer calls getChildren(id) or getParent(id).
Lookup ==
  /\ ~crashed
  /\ crashed' = lookupThrows(defect)
  /\ sessionOp' = "lookup"
  /\ UNCHANGED <<mapping, storage, effectPending, spawnCalls, defect, effectStored>>
  /\ UNCHANGED exceptSession

LoadNext ==
  \/ MountForeign
  \/ AddSpawn
  \/ Lookup
  \/ PersistEffect
  \/ Remount

LoadSpec == SessionInit /\ [][LoadNext]_vars

NoDuplicates(seq) == \A i, j \in 1..Len(seq) : seq[i] = seq[j] => i = j

\* C19: on every mapping addSpawn and clearMapping calls can produce,
\* addSpawn(p, c, l) applied twice gives the mapping one application gives,
\* for all p, c and l; and no child list holds the same id twice.
C19_AddSpawnIdempotent ==
  /\ \A p \in SessionIds, c \in SessionIds, l \in Labels :
       addSpawn(addSpawn(mapping, p, c, l), p, c, l) = addSpawn(mapping, p, c, l)
  /\ \A p \in DOMAIN mapping : NoDuplicates(mapping[p].childIds)

\* A mapping in which one parent has two children and a child is recorded
\* under the parent that lists it: calls that add to an existing list and
\* calls that repeat an earlier one have acted.
C19_Witness ==
  \E p \in DOMAIN mapping, c \in DOMAIN mapping :
    /\ Len(mapping[p].childIds) >= 2
    /\ c \in Range(mapping[p].childIds)
    /\ mapping[c].parentId = p
    /\ mapping[c].label = "L"

\* C20: after any sequence of addSpawn and clearMapping calls, for all ids p
\* and c: c is in getChildren(p) if and only if getParent(c) = p.
C20_ChildParentSymmetric ==
  \A p \in SessionIds, c \in SessionIds :
    (c \in Range(getChildren(mapping, p))) <=> (getParent(mapping, c) = p)

\* C21: after clearMapping(), once the persistence effect has run, the mapping
\* is empty and the storage key is absent.
C21_ClearEvicts ==
  (sessionOp = "clearMapping" /\ ~effectPending) =>
    /\ mapping = EmptyMapping
    /\ storage.kind = "absent"

C23_LoadNeverCrashes == ~crashed

\* The sessions reached from id by following parentId at most n times.
RECURSIVE Ancestors(_, _, _)
Ancestors(m, id, n) ==
  LET parent == getParent(m, id)
  IN IF n = 0 \/ parent = Undefined THEN {}
     ELSE {parent} \cup Ancestors(m, parent, n - 1)

\* C35: the parent relation of the mapping is acyclic: no session is its own
\* parent or ancestor, whatever addSpawn calls were made.
C35_ParentAcyclic ==
  \A id \in DOMAIN mapping :
    id \notin Ancestors(mapping, id, Cardinality(SessionIds))

\* ------------------------------------------------- main-process IPC handlers
\* (src/apps/claw_dashboard/dist/preload.js)
\*
\* A text is a sequence of tokens: the characters "-", " ", "\r" and "\n"
\* stand for themselves, every other token is a run of characters without
\* white space that is not split by any of the operations below.
MaxStdoutLines == 3      \* lines of `openclaw agents list` output

Whitespace == {" ", "\r", "\n"}

RECURSIVE trimStart(_)
trimStart(s) ==
  IF s # <<>> /\ Head(s) \in Whitespace THEN trimStart(Tail(s)) ELSE s

RECURSIVE trimEnd(_)
trimEnd(s) ==
  IF s # <<>> /\ s[Len(s)] \in Whitespace
  THEN trimEnd(SubSeq(s, 1, Len(s) - 1))
  ELSE s

\* String.prototype.trim()
trim(s) == trimEnd(trimStart(s))

\* String.prototype.startsWith(p)
startsWith(s, p) == Len(s) >= Len(p) /\ SubSeq(s, 1, Len(p)) = p

\* String.prototype.substring(n)
substring(s, n) == SubSeq(s, n + 1, Len(s))

\* String.prototype.includes(tok), for a one-token needle
includes(s, tok) == \E i \in 1..Len(s) : s[i] = tok

\* The least index of the set hits, 0 when it is empty.
Least(hits) ==
  IF hits = {} THEN 0 ELSE CHOOSE i \in hits : \A j \in hits : i <= j

\* String.prototype.indexOf(tok), counted from 1: 0 when tok does not occur.
FirstIn(s, tok) == Least({i \in 1..Len(s) : s[i] = tok})

\* String.prototype.split('\n')
RECURSIVE split(_)
split(text) ==
  LET n == FirstIn(text, "\n")
  IN  IF n = 0 THEN <<text>>
      ELSE <<SubSeq(text, 1, n - 1)>> \o split(SubSeq(text, n + 1, Len(text)))

\* nameWithDefault.replace(/\s*\(default\).*$/, ''): the leftmost match starts
\* at the white space before the first "(default)" that no line terminator
\* follows ("." matches none) and runs to the end of the string.
replaceDefault(s) ==
  LET j == Least({i \in 1..Len(s) :
                    /\ s[i] = "(default)"
                    /\ \A k \in (i + 1)..Len(s) : s[k] \notin {"\r", "\n"}})
  IN  IF j = 0 THEN s ELSE trimEnd(SubSeq(s, 1, j - 1))

MarkerPrefix == <<"-", " ">>
WorkspaceKey == <<"Workspace:">>
ModelKey == <<"Model:">>

\* let currentAgent = null
NoAgent == [kind |-> "null"]

\* if (currentAgent) agents.push(currentAgent), inside the loop
pushCurrent(agents, currentAgent) ==
  IF currentAgent.kind = "agent" THEN Append(agents, currentAgent) ELSE agents

\* One iteration of the loop over the lines; st = [agents, currentAgent].
parseLine(st, line) ==
  LET trimmed == trim(line)
  IN  IF startsWith(trimmed, MarkerPrefix)
      THEN LET nameWithDefault == trim(substring(trimmed, 2))
               isDefault == includes(nameWithDefault, "(default)")
               name == trim(replaceDefault(nameWithDefault))
           IN  [agents |-> pushCurrent(st.agents, st.currentAgent),
                currentAgent |-> [kind |-> "agent", id |-> name, name |-> name,
                                  isDefault |-> isDefault,
                                  workspace |-> <<>>, model |-> <<>>]]
      ELSE IF startsWith(trimmed, WorkspaceKey) /\ st.currentAgent.kind = "agent"
      THEN [st EXCEPT !.currentAgent.workspace =
                        trim(substring(trimmed, Len(WorkspaceKey)))]
      ELSE IF startsWith(trimmed, ModelKey) /\ st.currentAgent.kind = "agent"
      THEN [st EXCEPT !.currentAgent.model =
                        trim(substring(trimmed, Len(ModelKey)))]
      ELSE st

RECURSIVE parseLines(_, _)
parseLines(st, lines) ==
  IF lines = <<>> THEN st
  ELSE parseLines(parseLine(st, Head(lines)), Tail(lines))

\* Mutant: the record that is current at the end of the input is dropped.
flush_Dropped(agents, currentAgent) == agents

\* "Push last agent": if (currentAgent) agents.push(currentAgent), after the loop
flush(agents, currentAgent) ==
  IF currentAgent.kind = "agent" THEN Append(agents, currentAgent) ELSE agents

\* The body of the try block of agents:list.
parseAgents(stdout) ==
  LET st == parseLines([agents |-> <<>>, currentAgent |-> NoAgent],
                       split(stdout))
  IN  flush(st.agents, st.currentAgent)

\* error.message of the error execFile() hands to its callback
ErrorMessages == {"Command failed: openclaw", "spawn openclaw ENOENT"}

\* What one execFile(bin, args, options, callback) call does: the process
\* exits with code 0 and the callback gets its stdout; the process exits
\* otherwise or cannot be started and the callback gets an error; or the
\* call itself throws (spawn errors other than EACCES, EAGAIN, EMFILE,
\* ENFILE and ENOENT, such as E2BIG, are thrown by child_process, not
\* passed to the callback).
ExecOutcomes(texts) ==
  {[kind |-> "exit0", stdout |-> t] : t \in texts}
    \cup {[kind |-> "failed", message |-> m] : m \in ErrorMessages}
    \cup {[kind |-> "threw"]}

\* execOpenClaw(args): the promise it returns, and the execFile() calls made.
\* An exception in the executor rejects the promise; stdout?.toString() || ''
\* is the text itself.
execOpenClaw(o) ==
  CASE o.kind = "exit0"  -> [execFileCalls |-> 1, settled |-> "resolved",
                             value |-> [stdout |-> o.stdout]]
    [] o.kind = "failed" -> [execFileCalls |-> 1, settled |-> "resolved",
                             value |-> [error |-> o.message]]
    [] o.kind = "threw"  -> [execFileCalls |-> 1, settled |-> "rejected"]

\* if (res.error)
hasError(res) == "error" \in DOMAIN res /\ res.error # ""

\* The handler's promise rejects: `await execOpenClaw(...)` threw.
Rejected == [rejected |-> TRUE]

\* ipcMain.handle('agents:list'), given what execFile() did.
agentsList(o) ==
  LET p == execOpenClaw(o)
  IN  IF p.settled = "rejected" THEN Rejected
      ELSE IF hasError(p.value)
      THEN [success |-> FALSE, error |-> p.value.error]
      ELSE [success |-> TRUE, agents |-> parseAgents(p.value.stdout)]

\* Lines of `openclaw agents list` output, and lines it does not print.
Lines ==
  { <<"-", " ", "main">>,
    <<" ", "-", " ", "head", " ", "(default)", "\r">>,
    <<"-", " ", "head", " ", "(default)", " ", "main">>,
    <<"-", " ", " ", "(default)">>,
    <<"-", "main">>,
    <<"-", " ">>,
    <<" ", " ", "Workspace:", " ", "/w">>,
    <<"Workspace:", "/w2", "\r">>,
    <<" ", "Model:", " ", "gpt-x">>,
    <<" ", "Other:", " ", "/w">>,
    <<" ", "Identity:", " ", "-", " ", "main">>,
    <<>> }

RECURSIVE join(_)
\* Array.prototype.join('\n')
join(lines) ==
  IF lines = <<>> THEN <<>>
  ELSE IF Len(lines) = 1 THEN lines[1]
  ELSE lines[1] \o <<"\n">> \o join(Tail(lines))

ListingTexts ==
  {join(ls) : ls \in UNION {[1..n -> Lines] : n \in 0..MaxStdoutLines}}

\* The renderer invokes agents:list.
AgentsList ==
  /\ ipc.channel = "idle"
  /\ \E o \in ExecOutcomes(ListingTexts) :
       ipc' = [channel |-> "agents:list",
               execFileCalls |-> execOpenClaw(o).execFileCalls,
               outcome |-> o, result |-> agentsList(o)]
  /\ UNCHANGED exceptIpc

\* The listing as the claims describe it.
IsMarker(line) == startsWith(trim(line), MarkerPrefix)

MarkerText(line) == trim(substring(trim(line), Len(MarkerPrefix)))

Markers(lines) == {i \in 1..Len(lines) : IsMarker(lines[i])}

NthMarker(lines, k) ==
  CHOOSE i \in Markers(lines) :
    Cardinality({j \in Markers(lines) : j < i}) = k - 1

\* The lines after the k-th marker and before the next one.
Between(lines, k) ==
  {i \in 1..Len(lines) :
     /\ i > NthMarker(lines, k)
     /\ \A j \in Markers(lines) : j > NthMarker(lines, k) => i < j}

\* The value of the last `key` line among the lines idx, '' when there is none.
ValueOf(lines, idx, key) ==
  LET hits == {i \in idx : startsWith(trim(lines[i]), key)}
  IN  IF hits = {} THEN <<>>
      ELSE LET i == CHOOSE i \in hits : \A j \in hits : j <= i
           IN  trim(substring(trim(lines[i]), Len(key)))

\* The marker text without a "(default)" at its end.
SuffixStripped(text) ==
  IF text # <<>> /\ text[Len(text)] = "(default)"
  THEN trim(SubSeq(text, 1, Len(text) - 1))
  ELSE text

\* The marker text before its first "(default)".
BeforeDefault(text) ==
  LET j == FirstIn(text, "(default)")
  IN  IF j = 0 THEN text ELSE trim(SubSeq(text, 1, j - 1))

\* The records of the listing; asStated chooses the wording of the name.
Listed(lines, asStated) ==
  [k \in 1..Cardinality(Markers(lines)) |->
     LET text == MarkerText(lines[NthMarker(lines, k)])
         name == IF asStated THEN SuffixStripped(text) ELSE BeforeDefault(text)
     IN  [kind |-> "agent", id |-> name, name |-> name,
          isDefault |-> includes(text, "(default)"),
          workspace |-> ValueOf(lines, Between(lines, k), WorkspaceKey),
          model |-> ValueOf(lines, Between(lines, k), ModelKey)]]

ListingDone == ipc.channel = "agents:list" /\ ipc.outcome.kind = "exit0"

StringTokens == {"\"sessions\"", "\"id\""}

\* The value of JSON text: what JSON.parse reads at the start of s, and the
\* tokens left after it.  The texts below need: null, a number, a string, an
\* array of at most one element, an object of at most one member.
NoParse == [ok |-> FALSE]

RECURSIVE parseValue(_)
parseValue(text) ==
  LET s == trimStart(text)
  IN  IF s = <<>> THEN NoParse
      ELSE IF Head(s) = "null"
      THEN [ok |-> TRUE, value |-> [kind |-> "null"], rest |-> Tail(s)]
      ELSE IF Head(s) = "1"
      THEN [ok |-> TRUE, value |-> [kind |-> "number"], rest |-> Tail(s)]
      ELSE IF Head(s) \in StringTokens
      THEN [ok |-> TRUE, value |-> [kind |-> "string", text |-> Head(s)],
            rest |-> Tail(s)]
      ELSE IF Head(s) = "["
      THEN LET a == trimStart(Tail(s))
           IN  IF a # <<>> /\ Head(a) = "]"
               THEN [ok |-> TRUE, value |-> [kind |-> "array", items |-> <<>>],
                     rest |-> Tail(a)]
               ELSE LET e == parseValue(a)
                        b == IF e.ok THEN trimStart(e.rest) ELSE <<>>
                    IN  IF e.ok /\ b # <<>> /\ Head(b) = "]"
                        THEN [ok |-> TRUE,
                              value |-> [kind |-> "array",
                                         items |-> <<e.value>>],
                              rest |-> Tail(b)]
                        ELSE NoParse
      ELSE IF Head(s) = "{"
      THEN LET a == trimStart(Tail(s))
           IN  IF a # <<>> /\ Head(a) = "}"
               THEN [ok |-> TRUE, value |-> [kind |-> "object", members |-> <<>>],
                     rest |-> Tail(a)]
               ELSE IF a # <<>> /\ Head(a) \in StringTokens
               THEN LET c == trimStart(Tail(a))
                        e == IF c # <<>> /\ Head(c) = ":"
                             THEN parseValue(Tail(c)) ELSE NoParse
                        b == IF e.ok THEN trimStart(e.rest) ELSE <<>>
                    IN  IF e.ok /\ b # <<>> /\ Head(b) = "}"
                        THEN [ok |-> TRUE,
                              value |-> [kind |-> "object",
                                         members |-> [k \in {Head(a)} |-> e.value]],
                              rest |-> Tail(b)]
                        ELSE NoParse
               ELSE NoParse
      ELSE NoParse

\* JSON.parse(text): the value, or a SyntaxError.
JSONparse(text) ==
  LET r == parseValue(text)
  IN  IF r.ok /\ trimStart(r.rest) = <<>>
      THEN [ok |-> TRUE, value |-> r.value]
      ELSE [ok |-> FALSE, message |-> "Unexpected token"]

\* res.stdout || '{}'
orEmptyObject(stdout) == IF stdout = <<>> THEN <<"{", "}">> ELSE stdout

\* What a command run with --json prints, and what it prints when it fails
\* to produce JSON although it exits with code 0.
JsonTexts ==
  { <<"{", "\"sessions\"", ":", "[", "]", "}", "\n">>,
    <<"{", "\"id\"", ":", " ", "1", "}">>,
    <<"{", "}", "\n">>,
    <<"[", "{", "\"id\"", ":", "null", "}", "]">>,
    <<"null">>,
    <<>>,
    <<"Gateway", " ", "is", " ", "not", " ", "running", "\n">>,
    <<"{", "\"sessions\"", ":", "[">>,
    <<"{", "\"sessions\"", ":", "[", "]", "}", "\n", "Done", "\n">> }

\* ipcMain.handle('sessions:list'), given what execFile() did.  The
\* activeMinutes argument only adds `--active <n>` to the command line.
sessionsList(o) ==
  LET p == execOpenClaw(o)
  IN  IF p.settled = "rejected" THEN Rejected
      ELSE IF hasError(p.value)
      THEN [success |-> FALSE, error |-> p.value.error]
      ELSE LET j == JSONparse(orEmptyObject(p.value.stdout))
           IN  IF j.ok THEN [success |-> TRUE, sessions |-> j.value]
               ELSE [success |-> FALSE, error |-> j.message,
                     raw |-> p.value.stdout]

\* ipcMain.handle('agent:run') past its message check.  agentId, sessionId
\* and thinking only add options to the command line.
agentRun(o) ==
  LET p == execOpenClaw(o)
  IN  IF p.settled = "rejected" THEN Rejected
      ELSE IF hasError(p.value)
      THEN [success |-> FALSE, error |-> p.value.error]
      ELSE LET j == JSONparse(orEmptyObject(p.value.stdout))
           IN  IF j.ok THEN [success |-> TRUE, result |-> j.value]
               ELSE [success |-> TRUE,
                     result |-> [kind |-> "text", text |-> p.value.stdout]]

\* The message argument: missing, empty, or a text.
Messages == {Undefined, "", "hi"}

\* No execFile() call was made.
NoExec == [kind |-> "none"]

\* The renderer invokes sessions:list.
SessionsList ==
  /\ ipc.channel = "idle"
  /\ \E o \in ExecOutcomes(JsonTexts) :
       ipc' = [channel |-> "sessions:list",
               execFileCalls |-> execOpenClaw(o).execFileCalls,
               outcome |-> o, result |-> sessionsList(o)]
  /\ UNCHANGED exceptIpc

\* The renderer invokes agent:run.
AgentRun ==
  /\ ipc.channel = "idle"
  /\ \E message \in Messages :
       IF ~Truthy(message)
       THEN ipc' = [channel |-> "agent:run", execFileCalls |-> 0,
                    outcome |-> NoExec,
                    result |-> [success |-> FALSE,
                                error |-> "Message is required"]]
       ELSE \E o \in ExecOutcomes(JsonTexts) :
              ipc' = [channel |-> "agent:run",
                      execFileCalls |-> execOpenClaw(o).execFileCalls,
                      outcome |-> o, result |-> agentRun(o)]
  /\ UNCHANGED exceptIpc

\* ---- gateway control
GatewayTexts ==
  { <<"Gateway", " ", "is", " ", "running", "\n">>,
    <<"Gateway", " ", "is", " ", "not", " ", "running", "\n">>,
    <<>> }

\* ipcMain.handle('gateway:status'), given what execFile() did.
gatewayStatusHandler(o) ==
  LET p == execOpenClaw(o)
  IN  IF p.settled = "rejected" THEN Rejected
      ELSE IF hasError(p.value)
      THEN [running |-> FALSE, output |-> p.value.error]
      ELSE [running |-> TRUE, output |-> p.value.stdout]

\* ipcMain.handle of gateway:start, gateway:stop and gateway:restart.
gatewayControl(o) ==
  LET p == execOpenClaw(o)
  IN  IF p.settled = "rejected" THEN Rejected
      ELSE IF hasError(p.value)
      THEN [success |-> FALSE, error |-> p.value.error]
      ELSE [success |-> TRUE, output |-> p.value.stdout]

\* The renderer invokes gateway:status.
GatewayStatus ==
  /\ ipc.channel = "idle"
  /\ \E o \in ExecOutcomes(GatewayTexts) :
       ipc' = [channel |-> "gateway:status",
               execFileCalls |-> execOpenClaw(o).execFileCalls,
               outcome |-> o, result |-> gatewayStatusHandler(o)]
  /\ UNCHANGED exceptIpc

\* The renderer invokes gateway:start, gateway:stop or gateway:restart.
GatewayControl ==
  /\ ipc.channel = "idle"
  /\ \E c \in {"gateway:start", "gateway:stop", "gateway:restart"},
        o \in ExecOutcomes(GatewayTexts) :
       ipc' = [channel |-> c,
               execFileCalls |-> execOpenClaw(o).execFileCalls,
               outcome |-> o, result |-> gatewayControl(o)]
  /\ UNCHANGED exceptIpc

\* One step of the main process: the renderer invokes a handler.  The
\* handlers keep no state from one call to the next.
IpcNext ==
  GatewayStatus \/ GatewayControl \/ AgentsList \/ SessionsList \/ AgentRun

IpcInit == Init /\ ipcAvailable

IpcSpec == IpcInit /\ [][IpcNext]_vars

\* A command run in JSON mode exited with code 0.
JsonDone ==
  /\ ipc.channel \in {"sessions:list", "agent:run"}
  /\ ipc.outcome.kind = "exit0"

\* C26: when the stdout of a command run in JSON mode is not valid JSON, the
\* handler returns success = false with an error message and the raw text.
C26_ParseFailureReported ==
  (JsonDone /\ ~JSONparse(ipc.outcome.stdout).ok) =>
    /\ ~ipc.result.success
    /\ "error" \in DOMAIN ipc.result
    /\ "raw" \in DOMAIN ipc.result /\ ipc.result.raw = ipc.outcome.stdout

\* execOpenClaw() was called.
Executed == ipc.channel # "idle" /\ ipc.outcome.kind # "none"

\* C27: every execOpenClaw call makes one execFile call and resolves, with
\* {stdout} after exit code 0 and with {error} otherwise, and the handler
\* turns {error} into running = false or success = false.
C27_InvokerAlwaysResolves ==
  Executed =>
    /\ ipc.execFileCalls = 1
    /\ execOpenClaw(ipc.outcome).settled = "resolved"
    /\ (ipc.outcome.kind = "exit0") =
         ("stdout" \in DOMAIN execOpenClaw(ipc.outcome).value)
    /\ (ipc.outcome.kind # "exit0") =
         ("error" \in DOMAIN execOpenClaw(ipc.outcome).value)
    /\ ipc.result # Rejected
    /\ ipc.outcome.kind # "exit0" =>
         IF ipc.channel = "gateway:status" THEN ~ipc.result.running
         ELSE ~ipc.result.success

\* ------------------------------------------------ GatewayClient.listSessions
\* (src/apps/claw_dashboard/src/services/GatewayClient.ts)
MaxSessions == 2         \* session records in a sessions:list reply

\* A session record of the reply is a function from the property names it
\* has to their values (JSON has no undefined: a property is there or not).
SessionFields == {"key", "sessionKey", "agentId"}

FieldValues(f) ==
  CASE f = "key"        -> {"", "agent:main:1"}
    [] f = "sessionKey" -> {"", "agent:main:2"}
    [] f = "agentId"    -> {"main"}

SessionRecords ==
  UNION { {s \in [d -> UNION {FieldValues(f) : f \in SessionFields}] :
             \A f \in d : s[f] \in FieldValues(f)}
          : d \in SUBSET SessionFields }

SessionLists == UNION {[1..n -> SessionRecords] : n \in 0..MaxSessions}

\* What `await window.ipc.invoke('sessions:list', ...)` gives: the handler's
\* failure, or the parsed document, which is an object with a sessions
\* array, a bare array, or an object without a sessions property.
SessionsReplies ==
  {[success |-> FALSE, error |-> e] : e \in {"", "Command failed: openclaw"}}
    \cup {[success |-> TRUE, sessions |-> [kind |-> "object", sessions |-> l]]
          : l \in SessionLists}
    \cup {[success |-> TRUE, sessions |-> [kind |-> "array", items |-> l]]
          : l \in SessionLists}
    \cup {[success |-> TRUE, sessions |-> [kind |-> "object"]]}

\* s.f: the value of the property, undefined when the record has none.
Get(s, f) == IF f \in DOMAIN s THEN s[f] ELSE Undefined

\* a || b
Or(a, b) == IF Truthy(a) THEN a ELSE b

\* Mutant: only key is set, sessionKey is left as it came.
normalize_KeyOnly(s) ==
  [f \in DOMAIN s \cup {"key"} |->
     IF f = "key" THEN Or(Get(s, "key"), Get(s, "sessionKey")) ELSE s[f]]

\* ({ ...s, sessionKey: s.key || s.sessionKey, key: s.key || s.sessionKey })
normalize(s) ==
  [f \in DOMAIN s \cup {"sessionKey", "key"} |->
     IF f \in {"sessionKey", "key"}
     THEN Or(Get(s, "key"), Get(s, "sessionKey"))
     ELSE s[f]]

\* listSessions(), given the reply: it throws, or returns the records.
listSessions(res) ==
  IF ~res.success
  THEN [threw |-> TRUE,
        message |-> IF res.error # "" THEN res.error
                    ELSE "Failed to list sessions"]
  ELSE IF res.sessions.kind = "array"
  THEN [threw |-> FALSE,
        sessions |-> [i \in DOMAIN res.sessions.items |->
                        normalize(res.sessions.items[i])]]
  ELSE IF "sessions" \in DOMAIN res.sessions
  THEN [threw |-> FALSE,
        sessions |-> [i \in DOMAIN res.sessions.sessions |->
                        normalize(res.sessions.sessions[i])]]
  ELSE [threw |-> TRUE, message |-> "map is not a function"]

\* A component calls gatewayClient.listSessions().
ListSessions ==
  /\ ~listing.called
  /\ \E res \in SessionsReplies :
       listing' = [called |-> TRUE, res |-> res, outcome |-> listSessions(res)]
  /\ UNCHANGED exceptListing

ListingNext == ListSessions

ListingInit == Init /\ ipcAvailable

ListingSpec == ListingInit /\ [][ListingNext]_vars

\* The records of the reply, in order.
Given ==
  IF listing.res.sessions.kind = "array" THEN listing.res.sessions.items
  ELSE listing.res.sessions.sessions

Returned == listing.called /\ ~listing.outcome.threw

\* What every returned record has whatever its keys are: key and sessionKey
\* are equal and the other properties are those of the input record.
Aligned(in, out) ==
  /\ DOMAIN out = DOMAIN in \cup {"key", "sessionKey"}
  /\ out.key = out.sessionKey
  /\ \A f \in DOMAIN in \ {"key", "sessionKey"} : out[f] = in[f]

\* C25 as stated: every record listSessions() returns has key equal to
\* sessionKey, the common value being the input record's key when it has one
\* and otherwise its sessionKey; all other properties pass through.
C25_KeyWhenPresent ==
  Returned =>
    /\ Len(listing.outcome.sessions) = Len(Given)
    /\ \A i \in DOMAIN Given :
         /\ Aligned(Given[i], listing.outcome.sessions[i])
         /\ listing.outcome.sessions[i].key =
              IF "key" \in DOMAIN Given[i] THEN Given[i].key
              ELSE Get(Given[i], "sessionKey")

\* C25 amended: the common value is the input record's key when that is a
\* non-empty string and otherwise its sessionKey (undefined when the record
\* has none).
C25_KeyWhenTruthy ==
  Returned =>
    /\ Len(listing.outcome.sessions) = Len(Given)
    /\ \A i \in DOMAIN Given :
         /\ Aligned(Given[i], listing.outcome.sessions[i])
         /\ listing.outcome.sessions[i].key =
              IF "key" \in DOMAIN Given[i] /\ Given[i].key # ""
              THEN Given[i].key
              ELSE Get(Given[i], "sessionKey")

\* Two records are returned: one had only key, the other an empty key and a
\* sessionKey, with another property beside them.
C25_Witness ==
  /\ Returned
  /\ Len(Given) = 2
  /\ DOMAIN Given[1] = {"key"} /\ Given[1].key = "agent:main:1"
  /\ listing.outcome.sessions[1].sessionKey = "agent:main:1"
  /\ DOMAIN Given[2] = SessionFields /\ Given[2].key = ""
  /\ listing.outcome.sessions[2].key = "agent:main:2"
  /\ listing.outcome.sessions[2].agentId = "main"

\* C34: listSessions() throws exactly when the reply has success = false, and
\* then with the reply's error message; a successful reply whose document has
\* no sessions array gives the empty list.
C34_ListSessionsTotal ==
  listing.called =>
    /\ listing.outcome.threw <=> ~listing.res.success
    /\ (~listing.res.success /\ listing.res.error # "")
         => listing.outcome.message = listing.res.error
    /\ (listing.res.success /\ listing.res.sessions = [kind |-> "object"])
         => listing.outcome = [threw |-> FALSE, sessions |-> <<>>]

\* --------------------------------------------------------------- smoke test
\* (src/unnamed/part_000)
\*
\* Texts are tokenised so that the words the script searches for ("running",
\* the agent names) are whole tokens wherever they occur; adjacent tokens
\* without white space between them form one word ("/ws/" "main").
requiredAgents == <<"head", "worker", "tester", "main">>

\* run(cmd): execSync() returns the output, or throws and the catch block
\* returns the error's stderr, stdout or message.
RunResults(texts) ==
  {[kind |-> "run", success |-> TRUE, output |-> t] : t \in texts}
    \cup {[kind |-> "run", success |-> FALSE,
           output |-> <<"Command", " ", "failed">>]}

\* String.prototype.toLowerCase()
toLowerCase(text) ==
  [i \in DOMAIN text |->
     IF text[i] \in {"Running", "RUNNING"} THEN "running" ELSE text[i]]

\* What `openclaw gateway status` prints, and the texts among them that say
\* the gateway is running.
StatusTexts ==
  { <<"Gateway", " ", "is", " ", "running", "\n">>,
    <<"Runtime:", " ", "RUNNING", "\n">>,
    <<"Gateway", " ", "is", " ", "not", " ", "running", "\n">>,
    <<"Gateway", " ", "is", " ", "stopped", "\n">> }

SaysRunning ==
  { <<"Gateway", " ", "is", " ", "running", "\n">>,
    <<"Runtime:", " ", "RUNNING", "\n">> }

\* What `openclaw agents list` prints.
SmokeListings ==
  { join(<< <<"-", " ", "head", " ", "(default)">>, <<"-", " ", "worker">>,
             <<"-", " ", "tester">>, <<"-", " ", "main">>, <<>> >>),
    join(<< <<"-", " ", "head">>, <<" ", "Workspace:", " ", "/ws/", "main">>,
             <<"-", " ", "worker">>, <<"-", " ", "tester">>, <<>> >>),
    join(<< <<"-", " ", "head">>, <<" ", "Routing:", " ", "agent:head:", "main">>,
             <<"-", " ", "worker", "\r">>, <<"-", " ", "tester", "\r">> >>),
    join(<< <<"-", " ", "head">>, <<"-", " ", "worker">>,
             <<"-", " ", "main">>, <<>> >>),
    join(<< <<"head", " ", "worker", " ", "tester", " ", "main">> >>),
    <<>> }

\* What `openclaw sessions` prints.
SessionsTexts ==
  { <<"No", " ", "sessions", "\n">>,
    <<"agent:head:", "main", " ", "1", "\n">> }

\* What `openclaw sessions --json` prints.
SmokeJsonTexts ==
  { <<"{", "\"sessions\"", ":", "[", "]", "}", "\n">>,
    <<"{", "\"sessions\"", ":", "[", "{", "\"id\"", ":", "1", "}", "]", "}">>,
    <<"{", "\"sessions\"", ":", "null", "}", "\n">>,
    <<"{", "}", "\n">>,
    <<"null">>,
    <<"No", " ", "sessions", "\n">> }

\* if (!parsed.sessions) throw ..., inside the try block after JSON.parse:
\* whether the block completes.  Reading .sessions of null throws a
\* TypeError; null, a missing property and the number 0 are falsy, arrays
\* and objects are not.
jsonValid(output) ==
  LET j == JSONparse(output)
  IN  /\ j.ok
      /\ j.value.kind = "object"
      /\ "\"sessions\"" \in DOMAIN j.value.members
      /\ j.value.members["\"sessions\""].kind \in {"array", "object", "string"}

\* 1. Check gateway status
CheckGateway ==
  /\ smoke.pc = "gateway"
  /\ \E r \in RunResults(StatusTexts) :
       smoke' =
         IF r.success /\ includes(toLowerCase(r.output), "running")
         THEN [smoke EXCEPT !.gatewayStatus = r, !.pc = "agents"]
         ELSE [smoke EXCEPT !.gatewayStatus = r, !.pc = "exited",
                            !.exitCode = 1]
  /\ UNCHANGED exceptSmoke

\* 2. List agents
CheckAgents ==
  /\ smoke.pc = "agents"
  /\ \E r \in RunResults(SmokeListings) :
       LET missingAgents ==
             SelectSeq(requiredAgents, LAMBDA agent : ~includes(r.output, agent))
       IN  smoke' =
             IF r.success /\ Len(missingAgents) = 0
             THEN [smoke EXCEPT !.agentsList = r, !.pc = "sessions"]
             ELSE [smoke EXCEPT !.agentsList = r, !.pc = "exited",
                                !.exitCode = 1]
  /\ UNCHANGED exceptSmoke

\* 3. List sessions
CheckSessions ==
  /\ smoke.pc = "sessions"
  /\ \E r \in RunResults(SessionsTexts) :
       smoke' =
         IF r.success
         THEN [smoke EXCEPT !.sessionsList = r, !.pc = "json"]
         ELSE [smoke EXCEPT !.sessionsList = r, !.pc = "exited",
                            !.exitCode = 1]
  /\ UNCHANGED exceptSmoke

\* 4. Test JSON output.  The result of the second `openclaw agents list` run
\* (agentsJson) is not used.
CheckJson ==
  /\ smoke.pc = "json"
  /\ \E r \in RunResults(SmokeJsonTexts) :
       smoke' =
         IF r.success /\ jsonValid(r.output)
         THEN [smoke EXCEPT !.sessionsJson = r, !.pc = "build"]
         ELSE [smoke EXCEPT !.sessionsJson = r, !.pc = "exited",
                            !.exitCode = 1]
  /\ UNCHANGED exceptSmoke

\* 5. Verify dashboard files exist, then process.exit(0).
CheckBuild ==
  /\ smoke.pc = "build"
  /\ \E dist \in BOOLEAN, indexHtml \in BOOLEAN :
       /\ indexHtml => dist
       /\ smoke' =
            [smoke EXCEPT !.build = [kind |-> "run", dist |-> dist,
                                     indexHtml |-> indexHtml],
                          !.pc = "exited",
                          !.exitCode = IF dist /\ indexHtml THEN 0 ELSE 1]
  /\ UNCHANGED exceptSmoke

SmokeNext ==
  CheckGateway \/ CheckAgents \/ CheckSessions \/ CheckJson \/ CheckBuild

SmokeInit == Init /\ ipcAvailable

SmokeSpec == SmokeInit /\ [][SmokeNext]_vars

\* The checks as the claims describe them.
IsListed(text, agent) ==
  \E i \in DOMAIN parseAgents(text) : parseAgents(text)[i].name = <<agent>>

GatewayPasses ==
  /\ smoke.gatewayStatus.kind = "run" /\ smoke.gatewayStatus.success
  /\ smoke.gatewayStatus.output \in SaysRunning

AgentsPass ==
  /\ smoke.agentsList.kind = "run" /\ smoke.agentsList.success
  /\ \A i \in DOMAIN requiredAgents :
       IsListed(smoke.agentsList.output, requiredAgents[i])

SessionsPass == smoke.sessionsList.kind = "run" /\ smoke.sessionsList.success

JsonPasses ==
  /\ smoke.sessionsJson.kind = "run" /\ smoke.sessionsJson.success
  /\ JSONparse(smoke.sessionsJson.output).ok
  /\ JSONparse(smoke.sessionsJson.output).value.kind = "object"
  /\ "\"sessions\"" \in DOMAIN JSONparse(smoke.sessionsJson.output).value.members

BuildPasses ==
  smoke.build.kind = "run" /\ smoke.build.dist /\ smoke.build.indexHtml

\* C28: the script exits with code 0 if and only if the gateway status
\* reports running, the four required agents are listed, the sessions can be
\* listed, `sessions --json` is valid JSON with a sessions field and the
\* build files exist; otherwise it exits with code 1 at the first failing
\* check, having run no later one.
C28_ExitCodeTellsChecks ==
  smoke.pc = "exited" =>
    /\ smoke.exitCode \in {0, 1}
    /\ (smoke.exitCode = 0) =
         (GatewayPasses /\ AgentsPass /\ SessionsPass /\ JsonPasses /\ BuildPasses)
    /\ ~GatewayPasses => smoke.agentsList = NotRun
    /\ ~AgentsPass => smoke.sessionsList = NotRun
    /\ ~SessionsPass => smoke.sessionsJson = NotRun
    /\ ~JsonPasses => smoke.build = NotRun

\* ------------------------------------------------- Mission Control: spawn
\* (src/apps/claw_dashboard/src/pages/MissionControl.tsx, with
\* GatewayClient.spawnSession and the agent:spawn handler of preload.js)

\* Session keys of the list; a record of the list has key and sessionKey
\* equal, as listSessions() returns them.
SessionKeys == {"agent:head:main", "agent:worker:1"}

SessionOf(k) == [key |-> k, sessionKey |-> k]

\* What fetchData() can put into `sessions`.
FetchedLists ==
  { <<>>,
    <<SessionOf("agent:worker:1")>>,
    <<SessionOf("agent:head:main")>>,
    <<SessionOf("agent:worker:1"), SessionOf("agent:head:main")>>,
    <<SessionOf(Undefined), SessionOf("agent:head:main")>> }

\* s.key?.includes('head:main')
includesHeadMain(s) == s.key # Undefined /\ s.key \in {"agent:head:main"}

\* sessions.find(s => s.key?.includes('head:main')): the record, or undefined
find(sessions) ==
  LET i == Least({n \in DOMAIN sessions : includesHeadMain(sessions[n])})
  IN  IF i = 0 THEN [kind |-> "undefined"]
      ELSE [kind |-> "session", session |-> sessions[i]]

\* What spawn(bin, spawnArgs, {detached, stdio: 'ignore'}) does: it returns
\* a child with a pid, returns a child without one (the process could not
\* be started; the error event comes later), or throws.
SpawnOutcomes ==
  {[kind |-> "child", pid |-> "4242"], [kind |-> "child", pid |-> Undefined],
   [kind |-> "threw"]}

\* ipcMain.handle('agent:spawn')
agentSpawn(message, o) ==
  IF ~Truthy(message) THEN [success |-> FALSE, error |-> "Message is required"]
  ELSE IF o.kind = "threw" THEN [success |-> FALSE, error |-> "spawn failed"]
  ELSE [success |-> TRUE, pid |-> o.pid]

\* GatewayClient.spawnSession, given the reply of agent:spawn: it throws, or
\* returns { sessionId, sessionKey }.
spawnSession(res) ==
  IF ~res.success
  THEN [threw |-> TRUE,
        message |-> Or(Get(res, "error"), "Failed to spawn session")]
  ELSE [threw |-> FALSE,
        sessionId |-> Or(Get(res, "sessionId"), Or(Get(res, "pid"), "unknown")),
        sessionKey |-> Get(res, "sessionKey")]

\* String.prototype.trim() of the task text
Tasks == {"", " ", "fix it"}

blank(task) == task \in {"", " "}

\* fetchData() completes (on mount, every 10 s, 1 s after a spawn).
FetchData ==
  /\ \E l \in FetchedLists : mission' = [mission EXCEPT !.sessions = l]
  /\ mission'.sessions # mission.sessions
  /\ UNCHANGED sessionVars
  /\ UNCHANGED exceptMission

\* The user opens the spawn form and fills it in.
EditForm ==
  /\ ~mission.spawning
  /\ \E task \in Tasks, label \in {"", "L"} :
       mission' = [mission EXCEPT !.showSpawnForm = TRUE, !.spawnTask = task,
                                  !.spawnLabel = label]
  /\ mission'.spawnTask # mission.spawnTask \/ mission'.spawnLabel # mission.spawnLabel
  /\ UNCHANGED sessionVars
  /\ UNCHANGED exceptMission

\* handleSpawn() up to its await: the guard, setSpawning(true),
\* setError(null), and the agent:spawn request.  The continuation sees the
\* sessions and the label of this render.
HandleSpawn ==
  /\ ~blank(mission.spawnTask) /\ ~mission.spawning
  /\ mission' = [mission EXCEPT
                   !.spawning = TRUE, !.error = "null",
                   !.inFlight = [kind |-> "spawn", message |-> mission.spawnTask,
                                 label |-> mission.spawnLabel,
                                 sessions |-> mission.sessions]]
  /\ UNCHANGED sessionVars
  /\ UNCHANGED exceptMission

\* handleSpawn() after its await.
HandleSpawnReply ==
  /\ mission.inFlight.kind = "spawn"
  /\ \E o \in SpawnOutcomes :
       LET res == spawnSession(agentSpawn(mission.inFlight.message, o))
           parentSession == find(mission.inFlight.sessions)
           parentKey == IF parentSession.kind = "session"
                        THEN Or(parentSession.session.sessionKey,
                                parentSession.session.key)
                        ELSE Undefined
       IN  IF res.threw
           THEN /\ mission' = [mission EXCEPT
                                 !.error = res.message, !.spawning = FALSE,
                                 !.inFlight = [kind |-> "none"],
                                 !.last = [kind |-> "failed"]]
                /\ UNCHANGED sessionVars
           ELSE /\ mission' = [mission EXCEPT
                                 !.showSpawnForm = FALSE, !.spawnTask = "",
                                 !.spawnLabel = "", !.spawning = FALSE,
                                 !.inFlight = [kind |-> "none"],
                                 !.last = [kind |-> "spawned", res |-> res,
                                           parentKey |-> parentKey]]
                /\ IF parentSession.kind = "session" /\ Truthy(res.sessionKey)
                   THEN /\ mapping' = addSpawn(mapping, parentKey,
                                               res.sessionKey,
                                               mission.inFlight.label)
                        /\ effectPending' = TRUE
                        /\ sessionOp' = "addSpawn"
                        /\ UNCHANGED <<storage, spawnCalls, defect,
                                       effectStored, crashed>>
                   ELSE UNCHANGED sessionVars
  /\ UNCHANGED exceptMission

\* A step of Mission Control or of the hierarchy provider above it.
MissionNext ==
  FetchData \/ EditForm \/ HandleSpawn \/ HandleSpawnReply \/ PersistEffect

MissionInit == Init /\ ipcAvailable

MissionSpec == MissionInit /\ [][MissionNext]_vars

\* C29: when a spawn from Mission Control has succeeded while the session
\* list had a session whose key includes head:main, the hierarchy has the
\* spawned session as a child of that session.
C29_SpawnRecorded ==
  (mission.last.kind = "spawned" /\ mission.last.parentKey # Undefined) =>
    \E c \in {mission.last.res.sessionId, mission.last.res.sessionKey} :
      /\ c \in Range(getChildren(mapping, mission.last.parentKey))
      /\ getParent(mapping, c) = mission.last.parentKey

\* -------------------------------------------------------- push-socket client
\* (src/apps/claw_dashboard/src/services/OpenClawWebSocket.ts)
\*
\* ws.sockets[i] is the readyState of the WebSocket in slot i; a closed
\* socket runs no more callbacks, so its slot is free for the next socket
\* created.  ws.socket is the slot of the one in this.socket (0 for null),
\* ws.timers the delays of the reconnect timeouts not yet run, ws.emitted the
\* events the last callback emitted, ws.quiet the history "disconnect() was
\* called and neither connect() nor configure() since", ws.autos the history
\* "reconnect timeouts scheduled since a socket last opened".  The gateway
\* URL is one that new URL() accepts.
wsMaxReconnectAttempts == 5
reconnectDelay == 1000

\* The fields a callback may change, for comparison afterwards.
Fields(w) ==
  [socket |-> w.socket, isConnected |-> w.isConnected,
   reconnectAttempts |-> w.reconnectAttempts]

\* The step that took the client from ws to w: whether it created a socket,
\* and the delay of the timeout it scheduled (0 for none).
Done(w, op, emits) ==
  [w EXCEPT !.emitted = emits,
            !.autos = IF op = "onopen" THEN 0
                      ELSE IF Len(w.timers) > Len(ws.timers) THEN @ + 1
                      ELSE @,
            !.last = [op |-> op, before |-> Fields(ws),
                      created |-> w.socket # 0 /\ w.socket # ws.socket,
                      scheduled |-> IF Len(w.timers) > Len(ws.timers)
                                    THEN w.timers[Len(w.timers)] ELSE 0]]

FreeSlots(w) == {i \in DOMAIN w.sockets : w.sockets[i] = "closed"}

\* connect(): nothing when a socket is held; otherwise disconnect() (which
\* only clears isConnected, there being no socket) and a new WebSocket.
wsConnect(w) ==
  IF w.socket # 0 THEN w
  ELSE LET slot == Least(FreeSlots(w))
       IN  [w EXCEPT !.isConnected = FALSE,
                     !.sockets[slot] = "connecting",
                     !.socket = slot]

\* disconnect()
wsDisconnect(w) ==
  IF w.socket # 0
  THEN [w EXCEPT !.sockets[w.socket] = "closing", !.socket = 0,
                 !.isConnected = FALSE]
  ELSE [w EXCEPT !.isConnected = FALSE]

\* configure(), after it saved the configuration.
configure(w) ==
  IF w.isConnected THEN wsConnect(wsDisconnect(w)) ELSE w

\* Mutant: the delay doubles from the counter after its increment.
attemptReconnection_LateDouble(w) ==
  IF w.reconnectAttempts >= wsMaxReconnectAttempts THEN w
  ELSE [w EXCEPT !.reconnectAttempts = @ + 1,
                 !.timers = Append(@, reconnectDelay * Pow2(w.reconnectAttempts + 1))]

\* attemptReconnection(): reconnectDelay * Math.pow(2, reconnectAttempts - 1)
\* with the counter already incremented.
attemptReconnection(w) ==
  IF w.reconnectAttempts >= wsMaxReconnectAttempts THEN w
  ELSE [w EXCEPT !.reconnectAttempts = @ + 1,
                 !.timers = Append(@, reconnectDelay * Pow2(w.reconnectAttempts))]

\* The body of the promise of sendMessage() and of spawnAgent(): the
\* rejection for a client that is not connected, or this.socket.send(),
\* which throws InvalidStateError on a socket that is still connecting (the
\* promise rejects with it), transmits on an open one and discards the data
\* on one that is closing.
socketSend(w) ==
  IF w.socket = 0 \/ ~w.isConnected THEN "Not connected"
  ELSE CASE w.sockets[w.socket] = "connecting" -> "InvalidStateError"
         [] w.sockets[w.socket] = "open"       -> "sent"
         [] OTHER                              -> "discarded"

CanCreate(w) == w.socket = 0 => FreeSlots(w) # {}

\* The application calls connect().
WsConnect ==
  /\ CanCreate(ws)
  /\ ws' = [Done(wsConnect(ws), "connect", <<>>) EXCEPT !.quiet = FALSE]
  /\ UNCHANGED exceptWs

\* The application calls disconnect().
WsDisconnect ==
  /\ ws' = [Done(wsDisconnect(ws), "disconnect", <<>>) EXCEPT !.quiet = TRUE]
  /\ UNCHANGED exceptWs

\* The settings page calls configure().
Configure ==
  /\ ws.isConnected => FreeSlots(ws) # {}
  /\ ws' = [Done(configure(ws), "configure", <<>>) EXCEPT !.quiet = FALSE]
  /\ UNCHANGED exceptWs

\* socket.onopen of the socket in slot i
SocketOpen ==
  /\ \E i \in DOMAIN ws.sockets :
       /\ ws.sockets[i] = "connecting"
       /\ ws' = Done([ws EXCEPT !.sockets[i] = "open", !.isConnected = TRUE,
                                !.reconnectAttempts = 0],
                     "onopen", <<[event |-> "connected"]>>)
  /\ UNCHANGED exceptWs

\* socket.onclose of the socket in slot i: the connection failed, the server
\* closed it, or the close() of disconnect() completed.
SocketClose ==
  /\ Len(ws.timers) < MaxWsTimers
  /\ \E i \in DOMAIN ws.sockets :
       /\ ws.sockets[i] # "closed"
       /\ ws' = Done(attemptReconnection(
                       [ws EXCEPT !.sockets[i] = "closed",
                                  !.isConnected = FALSE, !.socket = 0]),
                     "onclose", <<[event |-> "disconnected"]>>)
  /\ UNCHANGED exceptWs

\* socket.onerror of the socket in slot i
SocketError ==
  /\ \E i \in DOMAIN ws.sockets :
       /\ ws.sockets[i] \in {"connecting", "open"}
       /\ ws' = Done(ws, "onerror", <<[event |-> "error"]>>)
  /\ UNCHANGED exceptWs

\* The reconnect timeout runs: if (!this.isConnected) this.connect()
WsTimer ==
  /\ \E n \in DOMAIN ws.timers :
       LET w == [ws EXCEPT !.timers = SubSeq(@, 1, n - 1)
                                        \o SubSeq(@, n + 1, Len(@))]
       IN  /\ ~w.isConnected => CanCreate(w)
           /\ ws' = Done(IF ~w.isConnected THEN wsConnect(w) ELSE w, "timer", <<>>)
  /\ UNCHANGED exceptWs

\* A component calls sendMessage().
SendMessage ==
  /\ ws' = [ws EXCEPT !.emitted = <<>>,
                      !.last = [op |-> "sendMessage", before |-> Fields(ws),
                                created |-> FALSE, scheduled |-> 0,
                                outcome |-> socketSend(ws)]]
  /\ UNCHANGED exceptWs

\* A component calls spawnAgent().
SpawnAgent ==
  /\ ws' = [ws EXCEPT !.emitted = <<>>,
                      !.last = [op |-> "spawnAgent", before |-> Fields(ws),
                                created |-> FALSE, scheduled |-> 0,
                                outcome |-> socketSend(ws)]]
  /\ UNCHANGED exceptWs

\* An inbound frame: text that JSON.parse rejects, or the value it gives -
\* null, a number, or an object with some of the properties type, text,
\* status and uptime.
FrameFields == {"type", "text", "status", "uptime"}

FrameValues(f) ==
  CASE f = "type"   -> {"message", "agent_update", "gateway_status", "spawn"}
    [] f = "text"   -> {"", "hi"}
    [] f = "status" -> {"running"}
    [] f = "uptime" -> {"0", "5"}   \* the numbers 0 and 5

FrameObjects ==
  UNION { {d \in [fs -> UNION {FrameValues(f) : f \in FrameFields}] :
             \A f \in fs : d[f] \in FrameValues(f)}
          : fs \in SUBSET FrameFields }

Frames ==
  {[kind |-> "invalid"], [kind |-> "null"], [kind |-> "number"]}
    \cup {[kind |-> "object", data |-> d] : d \in FrameObjects}

\* data.type === t
typeIs(data, t) == "type" \in DOMAIN data /\ data.type = t

\* data.f is truthy
truthy(data, f) ==
  f \in DOMAIN data /\ data[f] \notin (IF f = "uptime" THEN {"0"} ELSE {""})

\* The events socket.onmessage emits for a frame.  JSON.parse throws on text
\* that is not JSON and data.type throws on null; both end in the catch
\* block.  A number has no properties.
onmessage(frame) ==
  IF frame.kind # "object" THEN <<>>
  ELSE LET data == frame.data
       IN  IF typeIs(data, "message") \/ truthy(data, "text")
           THEN <<[event |-> "message",
                   text |-> IF truthy(data, "text") THEN data.text ELSE ""]>>
           ELSE IF typeIs(data, "agent_update") \/ truthy(data, "status")
           THEN <<[event |-> "agentUpdate",
                   status |-> IF truthy(data, "status") THEN data.status
                              ELSE "stopped"]>>
           ELSE IF typeIs(data, "gateway_status") \/ truthy(data, "uptime")
           THEN <<[event |-> "gatewayStatus", running |-> TRUE]>>
           ELSE <<>>

\* socket.onmessage of the i-th socket
SocketMessage ==
  /\ \E i \in DOMAIN ws.sockets, frame \in Frames :
       /\ ws.sockets[i] = "open"
       /\ ws' = [ws EXCEPT !.emitted = onmessage(frame),
                           !.last = [op |-> "onmessage", frame |-> frame,
                                     before |-> Fields(ws)]]
  /\ UNCHANGED exceptWs

\* The inbound frames of a connection the application keeps: it is opened,
\* receives frames, fails and is reopened by the reconnect timeout.
WsNext ==
  WsConnect \/ SocketOpen \/ SocketClose \/ WsTimer \/ SocketMessage

\* The connection life cycle of the push socket, without the inbound frames
\* (which change no field of the client).
WsLifecycleNext ==
  \/ WsConnect
  \/ WsDisconnect
  \/ Configure
  \/ SocketOpen
  \/ SocketClose
  \/ SocketError
  \/ WsTimer
  \/ SendMessage
  \/ SpawnAgent

WsInit == Init /\ ipcAvailable

WsSpec == WsInit /\ [][WsNext]_vars

WsLifecycleSpec == WsInit /\ [][WsLifecycleNext]_vars

\* The event a type tag selects.
EventOf(type) ==
  CASE type = "message"        -> "message"
    [] type = "agent_update"   -> "agentUpdate"
    [] type = "gateway_status" -> "gatewayStatus"
    [] OTHER                   -> "none"

\* C30: a frame that parses as JSON emits at most one event, the one its
\* type tag selects whatever other properties it carries; a frame that is not
\* valid JSON emits none and leaves socket, isConnected and
\* reconnectAttempts as they were.
C30_EventByTypeTag ==
  ws.last.op = "onmessage" =>
    /\ Len(ws.emitted) <= 1
    /\ (ws.last.frame.kind = "object" /\ "type" \in DOMAIN ws.last.frame.data
          /\ EventOf(ws.last.frame.data.type) # "none") =>
         /\ Len(ws.emitted) = 1
         /\ ws.emitted[1].event = EventOf(ws.last.frame.data.type)
    /\ ws.last.frame.kind = "invalid" =>
         /\ ws.emitted = <<>>
         /\ Fields(ws) = ws.last.before

\* The sockets of the client that are connecting or open.
LiveSockets == {i \in DOMAIN ws.sockets : ws.sockets[i] \in {"connecting", "open"}}

\* C36: at most one WebSocket the client created is connecting or open, in
\* every reachable state.
C36_OneLiveSocket == Cardinality(LiveSockets) <= 1

\* C37: from a disconnect() call until the next connect() or configure()
\* call, no step creates a socket.
C37_NoSocketAfterDisconnect == ws.quiet => ~ws.last.created

\* C38: isConnected implies that this.socket is a socket and that it is
\* open; sendMessage() and spawnAgent() reject with `Not connected` exactly
\* when no socket of the client is open, and otherwise transmit their frame.
C38_ConnectedMeansOpen ==
  /\ ws.isConnected => (ws.socket # 0 /\ ws.sockets[ws.socket] = "open")
  /\ ws.last.op \in {"sendMessage", "spawnAgent"} =>
       /\ ws.last.outcome = "Not connected"
            <=> ~\E i \in DOMAIN ws.sockets : ws.sockets[i] = "open"
       /\ ws.last.outcome # "Not connected" => ws.last.outcome = "sent"

\* The delays of the claim, by the number of the reconnection.
ClaimedDelays == <<1000, 2000, 4000, 8000, 16000>>

\* C39: reconnectAttempts stays within 0 .. 5; only onclose schedules a
\* reconnect timeout; the k-th timeout scheduled since a socket last opened
\* has k <= 5 and the delay 1000 * 2^(k-1); the counter changes only in
\* onclose (+1 with the timeout it schedules) and in onopen (to 0); an
\* onclose that finds the counter at 5 schedules nothing.
C39_ReconnectSchedule ==
  /\ ws.reconnectAttempts \in 0 .. wsMaxReconnectAttempts
  /\ ws.autos <= wsMaxReconnectAttempts
  /\ ws.last.op # "init" =>
       /\ ws.last.op = "onopen" => ws.reconnectAttempts = 0
       /\ ws.last.op \notin {"onopen", "onclose"} =>
            /\ ws.reconnectAttempts = ws.last.before.reconnectAttempts
            /\ ws.last.scheduled = 0
       /\ ws.last.op = "onclose" =>
            IF ws.last.before.reconnectAttempts < wsMaxReconnectAttempts
            THEN /\ ws.reconnectAttempts = ws.last.before.reconnectAttempts + 1
                 /\ ws.last.scheduled = ClaimedDelays[ws.autos]
            ELSE /\ ws.reconnectAttempts = wsMaxReconnectAttempts
                 /\ ws.last.scheduled = 0

\* C39 witness: five reconnections were scheduled without an open, the fifth
\* connection failed as well, and its onclose scheduled nothing.
C39_Witness ==
  /\ ws.last.op = "onclose"
  /\ ws.last.before.reconnectAttempts = wsMaxReconnectAttempts
  /\ ws.autos = wsMaxReconnectAttempts
  /\ ws.timers = <<>>

====
